---- MODULE Spec2Model ----
(***************************************************************************)
(* State-machine model of the Pac-Man engine of public/pacman.js           *)
(* (createPacmanGame): the four host operations start(), togglePause(),    *)
(* setPacmanDirection(dir) and the animation-frame callback loop(ts).      *)
(*                                                                         *)
(* Units.  All quantities of the source are kept as exact integers:        *)
(*   time      1 unit = 25 ms     (START_DELAY 1.5 s = 60, max delta = 2)  *)
(*   speed     1 unit = 0.1 tile/s (player 7.5 = 75, ghost 4.3 = 43)       *)
(*   factor    1 unit = 1/20       (1 = 20, 0.65 = 13)                     *)
(*   progress  1 unit = 1/8000 tile = speed unit * factor unit * time unit *)
(* so progress += speed * speedFactor * delta needs no rounding.  The      *)
(* source computes in IEEE doubles; the model is the exact arithmetic.     *)
(***************************************************************************)
EXTENDS Integers, Sequences, FiniteSets, TLC

\* ---------------------------------------------------------------- bounds
\* highest level the model lets a run reach (level is unbounded in the code)
MaxLevel == 2
\* number of simulation ticks explored after each spawn of the actors
MaxTicks == 30
\* largest gap between two frame timestamps that is enumerated (25 ms units)
MaxGap == 3
\* smallest gap that is enumerated
MinGap == 2
\* ticks explored after each spawn on the ring level
MaxTicksArena == 30
\* ticks explored after each spawn on the level with the enclosed ghost
MaxTicksKeep == 168
\* on that level the host presses keys and the pause button only within this
\* many ticks of a spawn ...
EarlyTicks == 5
\* ... and again from this tick on
QuietUntil == 158
\* on the dead-end corridor the host is quiet between EarlyTicks and this tick
QuietUntilGate == 21
\* ticks explored after each spawn on the level with the walled-in player
MaxTicksPen == 40
\* the longest gap between two frame timestamps a frame is tried with (10 s)
LongGap == 400
\* most rows, and most characters per row, of the blueprints given to the parser
MaxRows == 2
MaxCols == 2
\* highest level on which the head-on corridor is played
MaxDuelLevel == 21
\* on that corridor the host acts as a level is entered and then is quiet until
\* this tick, when the ghost is released
QuietUntilDuel == 25
\* ticks explored after each spawn on that corridor
MaxTicksDuel == 45
\* on that corridor, the number of ticks from the release on in which frames
\* shorter than the longest are enumerated
ShortFrames == 8

\* ticks explored after each spawn on the shipped level
MaxTicksShipped == 1100
\* on the shipped level the ghosts draw random numbers only within this many
\* ticks of a spawn
FreeDraws == 40

\* ------------------------------------------------------ program constants
START_DELAY == 60
BASE_GHOST_RELEASE == 50
GHOST_RELEASE_STEP == 20
MAX_GHOSTS == 4
MaxDelta == 2
One == 8000
PacRadius == 3200
PacmanSpeed == 75
GhostBaseSpeed == 43
GhostLevelStep == 2
FrightenedFactor == 13
NormalFactor == 20
FrightenedTime == 320
RespawnWait == 80
PelletScore == 10
PowerScore == 50
GhostScore == 200
StartLives == 3

Null == [null |-> TRUE]

directions ==
  << [dx |-> 1, dy |-> 0], [dx |-> -1, dy |-> 0],
     [dx |-> 0, dy |-> -1], [dx |-> 0, dy |-> 1] >>

ghostColors == << "#ef4444", "#34d399", "#60a5fa", "#f97316" >>

\* The level of the checked runs, one sequence of characters per row.  Row 1 is
\* a tunnel row (column 0 wraps to column 2) holding the player between a
\* power-pellet and a pellet; the ghost's cell opens onto the player's cell,
\* which is a junction; the other cells of row 0 are walls.
Junction ==
  << << "#", "G", "#" >>,
     << "o", "P", "." >> >>

\* A ring: the single row wraps from column 5 to column 0.  Two ghost cells
\* side by side, two power-pellets side by side, a pellet behind the player.
Arena ==
  << << ".", "P", "o", "o", "G", "G" >> >>

\* A dead-end corridor whose power-pellet lies right below the ghost's cell;
\* the player can wait at the closed end, below a pellet.
Gate ==
  << << ".", "#", "G", "#" >>,
     << "-", "P", "o", "#" >> >>

\* The player walled in on its cell; the two ghosts share a corridor of two
\* cells and never reach the player.
Pen ==
  << << "G", "G", "#", "P", "#" >> >>

\* A corridor of three cells with the first ghost's cell opening onto its
\* middle; the second ghost and a pellet are walled in.
Keep ==
  << << "#", "G", "#", "G", "#", ".", "#" >>,
     << "o", "P", "-", "#", "#", "#", "#" >> >>

\* A closed corridor: the player between a power-pellet and the ghost, with a
\* pellet at the closed end behind the power-pellet.
Duel ==
  << << "#", ".", "o", "P", "-", "G", "#" >> >>

\* The level blueprint of the source.
Shipped ==
  << << "#", "#", "#", "#", "#", "#", "#", "#", "#", "#", "#", "#", "#", "#", "#", "#", "#", "#", "#" >>,
     << "#", "o", ".", ".", ".", ".", "#", ".", ".", ".", ".", ".", "#", ".", ".", ".", ".", "o", "#" >>,
     << "#", ".", "#", "#", ".", "#", ".", "#", "#", "#", ".", "#", ".", "#", "#", ".", "#", ".", "#" >>,
     << "#", ".", ".", ".", ".", ".", ".", ".", ".", ".", ".", ".", ".", ".", ".", ".", ".", ".", "#" >>,
     << "#", ".", "#", "#", ".", "#", ".", "#", "#", "#", "#", "#", ".", "#", ".", "#", "#", ".", "#" >>,
     << "#", ".", ".", ".", ".", "#", ".", ".", ".", "#", ".", ".", ".", "#", ".", ".", ".", ".", "#" >>,
     << "#", "#", "#", "#", ".", "#", ".", "#", ".", "#", ".", "#", ".", "#", ".", "#", "#", "#", "#" >>,
     << "#", ".", ".", ".", ".", "#", ".", "#", ".", "#", ".", "#", ".", "#", ".", ".", ".", ".", "#" >>,
     << "#", ".", "#", "#", ".", "#", ".", "#", ".", "#", ".", "#", ".", "#", ".", "#", "#", ".", "#" >>,
     << "#", ".", "#", ".", ".", "#", ".", ".", ".", ".", ".", ".", ".", "#", ".", ".", "#", ".", "#" >>,
     << "#", ".", "#", ".", "#", "#", "#", ".", "#", "#", "#", ".", "#", "#", "#", ".", "#", ".", "#" >>,
     << "#", ".", "#", ".", ".", ".", "#", "G", "G", ".", "#", ".", ".", ".", "#", ".", "#", ".", "#" >>,
     << "#", ".", "#", "#", "#", ".", "#", "#", "#", "#", "#", ".", "#", "#", "#", ".", "#", ".", "#" >>,
     << "#", ".", "#", ".", ".", ".", "#", "G", "G", ".", "#", ".", ".", ".", "#", ".", "#", ".", "#" >>,
     << "#", ".", "#", ".", "#", "#", "#", ".", "#", "#", "#", ".", "#", "#", "#", ".", "#", ".", "#" >>,
     << "#", ".", "#", ".", ".", "#", ".", ".", ".", ".", ".", ".", ".", "#", ".", ".", "#", ".", "#" >>,
     << "#", ".", "#", "#", ".", "#", ".", "#", ".", "#", ".", "#", ".", "#", ".", "#", "#", ".", "#" >>,
     << "#", ".", ".", ".", ".", "#", ".", ".", ".", "P", ".", ".", ".", "#", ".", ".", ".", ".", "#" >>,
     << "#", ".", "#", "#", ".", "#", ".", "#", "#", "#", "#", "#", ".", "#", ".", "#", "#", ".", "#" >>,
     << "#", "o", ".", ".", ".", ".", ".", ".", ".", ".", ".", ".", ".", ".", ".", ".", ".", "o", "#" >>,
     << "#", "#", "#", "#", "#", "#", "#", "#", "#", "#", "#", "#", "#", "#", "#", "#", "#", "#", "#" >> >>

\* A way through the shipped level that consumes every pellet: the key the
\* host presses when the player stands on cell (row, col) with the given
\* lives and pellets left, as << lives, pelletsLeft, row, col, i >> for the
\* key directions[i].
Route ==
  << <<3, 193, 17, 9, 1>>, <<3, 192, 17, 10, 1>>, <<3, 191, 17, 11, 1>>, <<3, 190, 17, 12, 3>>,
     <<3, 189, 16, 12, 3>>, <<3, 188, 15, 12, 2>>, <<3, 187, 15, 11, 2>>, <<3, 186, 15, 10, 2>>,
     <<3, 185, 15, 9, 2>>, <<3, 184, 15, 8, 2>>, <<3, 183, 15, 7, 2>>, <<3, 182, 15, 6, 4>>,
     <<3, 181, 16, 6, 4>>, <<3, 180, 17, 6, 4>>, <<3, 179, 18, 6, 4>>, <<3, 178, 19, 6, 1>>,
     <<3, 177, 19, 7, 1>>, <<3, 176, 19, 8, 1>>, <<3, 175, 19, 9, 1>>, <<3, 174, 19, 10, 1>>,
     <<3, 173, 19, 11, 1>>, <<3, 172, 19, 12, 1>>, <<3, 171, 19, 13, 1>>, <<3, 170, 19, 14, 1>>,
     <<3, 169, 19, 15, 1>>, <<3, 168, 19, 16, 1>>, <<3, 167, 19, 17, 3>>, <<3, 166, 18, 17, 3>>,
     <<3, 165, 17, 17, 2>>, <<3, 164, 17, 16, 2>>, <<3, 163, 17, 15, 2>>, <<3, 162, 17, 14, 3>>,
     <<3, 161, 16, 14, 3>>, <<3, 160, 15, 14, 1>>, <<3, 159, 15, 15, 3>>, <<3, 158, 14, 15, 3>>,
     <<3, 157, 13, 15, 3>>, <<3, 156, 12, 15, 3>>, <<3, 155, 11, 15, 3>>, <<3, 154, 10, 15, 3>>,
     <<3, 153, 9, 15, 2>>, <<3, 152, 9, 14, 3>>, <<3, 151, 8, 14, 3>>, <<3, 150, 7, 14, 3>>,
     <<3, 149, 6, 14, 3>>, <<3, 148, 5, 14, 1>>, <<3, 147, 5, 15, 1>>, <<3, 146, 5, 16, 1>>,
     <<3, 145, 5, 17, 3>>, <<3, 144, 4, 17, 3>>, <<3, 143, 3, 17, 3>>, <<3, 142, 2, 17, 3>>,
     <<3, 141, 1, 17, 2>>, <<3, 140, 1, 16, 2>>, <<3, 139, 1, 15, 4>>, <<3, 138, 2, 15, 4>>,
     <<3, 137, 3, 15, 2>>, <<3, 136, 3, 14, 2>>, <<3, 135, 3, 13, 2>>, <<3, 134, 3, 12, 4>>,
     <<3, 133, 4, 12, 4>>, <<3, 132, 5, 12, 2>>, <<3, 131, 5, 11, 2>>, <<3, 130, 5, 10, 4>>,
     <<3, 129, 6, 10, 4>>, <<3, 128, 7, 10, 4>>, <<3, 127, 8, 10, 4>>, <<3, 126, 9, 10, 2>>,
     <<3, 125, 9, 9, 2>>, <<3, 124, 9, 8, 2>>, <<3, 123, 9, 7, 2>>, <<3, 122, 9, 6, 3>>,
     <<3, 121, 8, 6, 3>>, <<3, 120, 7, 6, 3>>, <<3, 119, 6, 6, 3>>, <<3, 118, 5, 6, 3>>,
     <<3, 117, 4, 6, 3>>, <<3, 116, 3, 6, 2>>, <<3, 115, 3, 5, 2>>, <<3, 114, 3, 4, 3>>,
     <<3, 113, 2, 4, 3>>, <<3, 112, 1, 4, 2>>, <<3, 111, 1, 3, 2>>, <<3, 110, 1, 2, 2>>,
     <<3, 109, 1, 1, 4>>, <<3, 108, 2, 1, 4>>, <<3, 107, 3, 1, 4>>, <<3, 106, 4, 1, 4>>,
     <<3, 105, 5, 1, 1>>, <<3, 104, 5, 2, 1>>, <<3, 103, 5, 3, 1>>, <<3, 102, 5, 4, 4>>,
     <<3, 101, 6, 4, 4>>, <<3, 100, 7, 4, 2>>, <<3, 99, 7, 3, 2>>, <<3, 98, 7, 2, 2>>,
     <<3, 97, 7, 1, 4>>, <<3, 96, 8, 1, 4>>, <<3, 95, 9, 1, 4>>, <<3, 94, 10, 1, 4>>,
     <<3, 93, 11, 1, 4>>, <<3, 92, 12, 1, 4>>, <<3, 91, 13, 1, 4>>, <<3, 90, 14, 1, 4>>,
     <<3, 89, 15, 1, 4>>, <<3, 88, 16, 1, 4>>, <<3, 87, 17, 1, 4>>, <<3, 86, 18, 1, 4>>,
     <<3, 85, 19, 1, 1>>, <<3, 84, 19, 2, 1>>, <<3, 83, 19, 3, 1>>, <<3, 82, 19, 4, 3>>,
     <<3, 81, 18, 4, 3>>, <<3, 80, 17, 4, 3>>, <<3, 79, 16, 4, 3>>, <<3, 78, 15, 4, 2>>,
     <<3, 77, 15, 3, 3>>, <<3, 76, 14, 3, 3>>, <<3, 75, 13, 3, 1>>, <<3, 74, 13, 4, 1>>,
     <<3, 73, 13, 5, 3>>, <<3, 72, 12, 5, 3>>, <<3, 71, 11, 5, 2>>, <<3, 70, 11, 4, 2>>,
     <<3, 69, 11, 3, 3>>, <<3, 68, 10, 3, 3>>, <<3, 67, 9, 3, 1>>, <<3, 66, 9, 4, 3>>,
     <<3, 65, 8, 4, 3>>, <<3, 65, 7, 4, 3>>, <<3, 65, 6, 4, 3>>, <<3, 65, 5, 4, 3>>,
     <<3, 64, 4, 4, 3>>, <<3, 64, 3, 4, 2>>, <<3, 63, 3, 3, 1>>, <<3, 63, 3, 4, 1>>,
     <<3, 63, 3, 5, 1>>, <<3, 63, 3, 6, 1>>, <<3, 62, 3, 7, 1>>, <<3, 61, 3, 8, 1>>,
     <<3, 60, 3, 9, 1>>, <<3, 59, 3, 10, 3>>, <<3, 58, 2, 10, 3>>, <<3, 57, 1, 10, 1>>,
     <<3, 56, 1, 11, 2>>, <<3, 56, 1, 10, 2>>, <<3, 55, 1, 9, 2>>, <<3, 54, 1, 8, 2>>,
     <<3, 53, 1, 7, 1>>, <<3, 53, 1, 8, 1>>, <<3, 53, 1, 9, 1>>, <<3, 53, 1, 10, 4>>,
     <<3, 53, 2, 10, 4>>, <<3, 53, 3, 10, 1>>, <<3, 52, 3, 11, 1>>, <<3, 52, 3, 12, 3>>,
     <<3, 51, 2, 12, 4>>, <<3, 51, 3, 12, 4>>, <<3, 51, 4, 12, 4>>, <<3, 51, 5, 12, 4>>,
     <<3, 50, 6, 12, 4>>, <<3, 49, 7, 12, 4>>, <<3, 48, 8, 12, 4>>, <<3, 47, 9, 12, 2>>,
     <<3, 46, 9, 11, 4>>, <<3, 45, 10, 11, 4>>, <<3, 44, 11, 11, 1>>, <<3, 43, 11, 12, 2>>,
     <<3, 43, 11, 11, 4>>, <<3, 42, 12, 11, 4>>, <<3, 41, 13, 11, 1>>, <<3, 40, 13, 12, 1>>,
     <<3, 39, 13, 13, 2>>, <<3, 39, 13, 12, 2>>, <<3, 39, 13, 11, 4>>, <<3, 38, 14, 11, 4>>,
     <<3, 38, 15, 11, 2>>, <<3, 38, 15, 10, 4>>, <<3, 37, 16, 10, 4>>, <<3, 37, 17, 10, 2>>,
     <<3, 37, 17, 9, 2>>, <<3, 36, 17, 8, 3>>, <<3, 35, 16, 8, 3>>, <<3, 35, 15, 8, 2>>,
     <<3, 35, 15, 7, 3>>, <<3, 34, 14, 7, 4>>, <<3, 34, 15, 7, 2>>, <<3, 34, 15, 6, 4>>,
     <<3, 34, 16, 6, 4>>, <<3, 34, 17, 6, 4>>, <<3, 34, 18, 6, 4>>, <<3, 34, 19, 6, 2>>,
     <<3, 33, 19, 5, 2>>, <<3, 33, 19, 4, 3>>, <<3, 33, 18, 4, 3>>, <<3, 33, 17, 4, 2>>,
     <<3, 32, 17, 3, 2>>, <<3, 31, 17, 2, 1>>, <<3, 31, 17, 3, 1>>, <<3, 31, 17, 4, 4>>,
     <<3, 31, 18, 4, 4>>, <<3, 31, 19, 4, 1>>, <<3, 31, 19, 5, 1>>, <<3, 31, 19, 6, 3>>,
     <<3, 31, 18, 6, 3>>, <<3, 31, 17, 6, 1>>, <<3, 30, 17, 7, 1>>, <<3, 30, 17, 8, 1>>,
     <<3, 30, 17, 9, 1>>, <<3, 30, 17, 10, 1>>, <<3, 30, 17, 11, 1>>, <<3, 30, 17, 12, 4>>,
     <<3, 29, 18, 12, 4>>, <<3, 29, 19, 12, 1>>, <<3, 29, 19, 13, 1>>, <<3, 29, 19, 14, 3>>,
     <<3, 28, 18, 14, 3>>, <<3, 28, 17, 14, 1>>, <<3, 28, 17, 15, 1>>, <<3, 28, 17, 16, 1>>,
     <<3, 28, 17, 17, 3>>, <<3, 27, 16, 17, 3>>, <<3, 26, 15, 17, 3>>, <<3, 25, 14, 17, 3>>,
     <<3, 24, 13, 17, 3>>, <<3, 23, 12, 17, 3>>, <<3, 22, 11, 17, 3>>, <<3, 21, 10, 17, 3>>,
     <<3, 20, 9, 17, 3>>, <<3, 19, 8, 17, 3>>, <<3, 18, 7, 17, 2>>, <<3, 17, 7, 16, 2>>,
     <<3, 16, 7, 15, 2>>, <<3, 16, 7, 14, 3>>, <<3, 16, 6, 14, 3>>, <<3, 16, 5, 14, 3>>,
     <<3, 15, 4, 14, 3>>, <<3, 15, 3, 14, 1>>, <<3, 15, 3, 15, 1>>, <<3, 14, 3, 16, 2>>,
     <<3, 14, 3, 15, 2>>, <<3, 14, 3, 14, 2>>, <<3, 14, 3, 13, 2>>, <<3, 14, 3, 12, 2>>,
     <<3, 14, 3, 11, 2>>, <<3, 14, 3, 10, 2>>, <<3, 14, 3, 9, 2>>, <<3, 14, 3, 8, 2>>,
     <<3, 14, 3, 7, 2>>, <<3, 14, 3, 6, 4>>, <<3, 14, 4, 6, 4>>, <<3, 14, 5, 6, 1>>,
     <<3, 13, 5, 7, 1>>, <<3, 12, 5, 8, 2>>, <<3, 12, 5, 7, 2>>, <<3, 12, 5, 6, 3>>,
     <<3, 12, 4, 6, 3>>, <<3, 12, 3, 6, 2>>, <<3, 12, 3, 5, 2>>, <<3, 12, 3, 4, 3>>,
     <<3, 12, 2, 4, 3>>, <<3, 12, 1, 4, 1>>, <<3, 11, 1, 5, 2>>, <<3, 11, 1, 4, 2>>,
     <<3, 11, 1, 3, 2>>, <<3, 11, 1, 2, 2>>, <<3, 11, 1, 1, 4>>, <<3, 11, 2, 1, 4>>,
     <<3, 11, 3, 1, 1>>, <<3, 10, 3, 2, 2>>, <<3, 10, 3, 1, 3>>, <<3, 10, 2, 1, 3>>,
     <<3, 10, 1, 1, 1>>, <<3, 10, 1, 2, 1>>, <<3, 10, 1, 3, 1>>, <<3, 10, 1, 4, 4>>,
     <<3, 10, 2, 4, 4>>, <<3, 10, 3, 4, 1>>, <<3, 10, 3, 5, 1>>, <<3, 10, 3, 6, 3>>,
     <<3, 9, 2, 6, 4>>, <<3, 9, 3, 6, 4>>, <<3, 9, 4, 6, 4>>, <<3, 9, 5, 6, 1>>,
     <<3, 9, 5, 7, 1>>, <<3, 9, 5, 8, 4>>, <<3, 8, 6, 8, 4>>, <<3, 7, 7, 8, 4>>,
     <<3, 6, 8, 8, 4>>, <<3, 6, 9, 8, 2>>, <<3, 6, 9, 7, 4>>, <<3, 5, 10, 7, 4>>,
     <<3, 5, 11, 7, 1>>, <<3, 5, 11, 8, 1>>, <<3, 4, 11, 9, 2>>, <<3, 4, 11, 8, 2>>,
     <<3, 4, 11, 7, 3>>, <<3, 4, 10, 7, 3>>, <<3, 4, 9, 7, 1>>, <<3, 4, 9, 8, 1>>,
     <<3, 4, 9, 9, 1>>, <<3, 4, 9, 10, 1>>, <<3, 4, 9, 11, 4>>, <<3, 4, 10, 11, 4>>,
     <<3, 4, 11, 11, 4>>, <<3, 4, 12, 11, 4>>, <<3, 4, 13, 11, 4>>, <<3, 4, 14, 11, 4>>,
     <<3, 4, 15, 11, 2>>, <<3, 4, 15, 10, 2>>, <<3, 4, 15, 9, 2>>, <<3, 4, 15, 8, 2>>,
     <<3, 4, 15, 7, 3>>, <<3, 4, 14, 7, 3>>, <<3, 4, 13, 7, 1>>, <<3, 4, 13, 8, 1>>,
     <<3, 3, 13, 9, 2>>, <<3, 3, 13, 8, 2>>, <<3, 3, 13, 7, 4>>, <<3, 3, 14, 7, 4>>,
     <<3, 3, 15, 7, 1>>, <<3, 3, 15, 8, 1>>, <<3, 3, 15, 9, 1>>, <<3, 3, 15, 10, 1>>,
     <<3, 3, 15, 11, 3>>, <<3, 3, 14, 11, 3>>, <<3, 3, 13, 11, 3>>, <<3, 3, 12, 11, 3>>,
     <<3, 3, 11, 11, 1>>, <<3, 3, 11, 12, 1>>, <<3, 2, 11, 13, 2>>, <<3, 2, 11, 12, 2>>,
     <<3, 2, 11, 11, 3>>, <<3, 2, 10, 11, 3>>, <<3, 2, 9, 11, 1>>, <<3, 2, 9, 12, 3>>,
     <<3, 2, 8, 12, 3>>, <<3, 2, 7, 12, 3>>, <<3, 2, 6, 12, 3>>, <<3, 2, 5, 12, 3>>,
     <<3, 2, 4, 12, 3>>, <<3, 2, 3, 12, 1>>, <<3, 2, 3, 13, 1>>, <<3, 2, 3, 14, 1>>,
     <<3, 2, 3, 15, 3>>, <<3, 2, 2, 15, 3>>, <<3, 2, 1, 15, 2>>, <<3, 1, 1, 14, 2>> >>

VARIABLES
  state,          \* the engine's `state` object
  loopMode,       \* sound board: mode of the looping pattern
  loopHandle,     \* sound board: the interval timer setLoop holds, or "null"
  loopTimers,     \* number of interval timers of the sound board that are running
  pauseDisabled,  \* ui.pauseButton.disabled
  pendingFrames,  \* number of frame callbacks queued by requestAnimationFrame
  calls,          \* operation run last, then the audio/render/timer calls it made
  LEVEL_BLUEPRINT, \* the level blueprint the engine was built with
  ticks,          \* simulation ticks (updateGame calls) since the actors were spawned
  page            \* the document: its elements, the listeners registered on it

vars == << state, loopMode, loopHandle, loopTimers, pauseDisabled, pendingFrames,
           calls, LEVEL_BLUEPRINT, ticks, page >>

\* The handlers are sequential code: each helper below maps a "world"
\* [state, loopMode, loopHandle, loopTimers, pauseDisabled, pendingFrames, calls]
\* to the world after it.
World == [ state |-> state, loopMode |-> loopMode,
           loopHandle |-> loopHandle, loopTimers |-> loopTimers,
           pauseDisabled |-> pauseDisabled,
           pendingFrames |-> pendingFrames, calls |-> calls ]

Emit(w, c) == [w EXCEPT !.calls = Append(@, c)]

Abs(x) == IF x < 0 THEN -x ELSE x
Min(a, b) == IF a < b THEN a ELSE b
Max(a, b) == IF a > b THEN a ELSE b

\* variant: a character the parser does not know gives an empty tile
ParseCell_UnknownEmpty(char) ==
  CASE char = "#" -> "wall"
    [] char = "." -> "pellet"
    [] char = "o" -> "power"
    [] OTHER -> "empty"

\* ------------------------------------------------------------- the parser
ParseCell(char) ==
  CASE char = "#" -> "wall"
    [] char = "." -> "pellet"
    [] char = "o" -> "power"
    [] char \in {"-", " "} -> "empty"
    [] char = "P" -> "empty"
    [] char = "G" -> "empty"
    [] OTHER -> "pellet"

\* cells of the blueprint in scan order (left to right, top to bottom)
RECURSIVE ScanCells(_, _, _)
ScanCells(bp, r, c) ==
  IF r > Len(bp) THEN << >>
  ELSE [k \in 1 .. Len(bp[r]) - c + 1 |->
          [row |-> r - 1, col |-> c + k - 2, char |-> bp[r][c + k - 1]]]
         \o ScanCells(bp, r + 1, 1)

\* the last "P" in scan order overwrites the earlier ones
LastSpawn(cells, dflt) ==
  LET ps == SelectSeq(cells, LAMBDA x : x.char = "P")
  IN IF ps = << >> THEN dflt
     ELSE [row |-> ps[Len(ps)].row, col |-> ps[Len(ps)].col]

parseBlueprint(bp) ==
  LET cells == ScanCells(bp, 1, 1)
      gcells == SelectSeq(cells, LAMBDA x : x.char = "G")
      counted == SelectSeq(cells,
                   LAMBDA x : ParseCell(x.char) \in {"pellet", "power"})
  IN [ grid |-> [r \in 0 .. Len(bp) - 1 |->
                   [c \in 0 .. Len(bp[r + 1]) - 1 |-> ParseCell(bp[r + 1][c + 1])]],
       ghostSpawns |-> [i \in 1 .. Len(gcells) |->
                          [row |-> gcells[i].row, col |-> gcells[i].col]],
       pacmanSpawn |-> LastSpawn(cells, [row |-> 17, col |-> 9]),
       pelletCount |-> Len(counted) ]

\* variant: walls do not block
isWalkable_OpenWalls(st, row, col) == row \in DOMAIN st.grid

\* --------------------------------------------------------- grid predicates
isWalkable(st, row, col) ==
  /\ row \in DOMAIN st.grid
  /\ (col \notin DOMAIN st.grid[row] \/ st.grid[row][col] # "wall")

isWithinRows(st, row) == row >= 0 /\ row < Cardinality(DOMAIN st.grid)

\* variant: no wrap at the right edge
wrapCol_LeftOnly(st, col) ==
  LET cols == Cardinality(DOMAIN st.grid[0])
  IN IF col < 0 THEN cols - 1 ELSE col

wrapCol(st, col) ==
  LET cols == Cardinality(DOMAIN st.grid[0])
  IN IF col < 0 THEN cols - 1 ELSE IF col >= cols THEN 0 ELSE col

countWalkableNeighbors(st, row, col) ==
  Cardinality({ i \in 1 .. Len(directions) :
     LET dir == directions[i]
         nextRow == row + dir.dy
         nextCol == IF dir.dx # 0 THEN wrapCol(st, col + dir.dx) ELSE col + dir.dx
     IN isWithinRows(st, nextRow) /\ isWalkable(st, nextRow, nextCol) })

\* ------------------------------------------------------------- the actors
createPacman(spawn) ==
  [ row |-> spawn.row, col |-> spawn.col,
    startRow |-> spawn.row, startCol |-> spawn.col,
    targetRow |-> spawn.row, targetCol |-> spawn.col,
    direction |-> [dx |-> 0, dy |-> 0],
    pendingDirection |-> Null,
    moving |-> FALSE, progress |-> 0, speed |-> PacmanSpeed ]

\* variant: the ghosts of every level have the speed of level 1
createGhost_FlatSpeed(st, spawn, color, order) ==
  [ row |-> spawn.row, col |-> spawn.col,
    startRow |-> spawn.row, startCol |-> spawn.col,
    targetRow |-> spawn.row, targetCol |-> spawn.col,
    direction |-> Null,
    moving |-> FALSE, progress |-> 0,
    speed |-> GhostBaseSpeed,
    frightened |-> FALSE, color |-> color, spawn |-> spawn,
    waitTimer |-> BASE_GHOST_RELEASE + order * GHOST_RELEASE_STEP ]

createGhost(st, spawn, color, order) ==
  [ row |-> spawn.row, col |-> spawn.col,
    startRow |-> spawn.row, startCol |-> spawn.col,
    targetRow |-> spawn.row, targetCol |-> spawn.col,
    direction |-> Null,
    moving |-> FALSE, progress |-> 0,
    speed |-> GhostBaseSpeed + (st.level - 1) * GhostLevelStep,
    frightened |-> FALSE, color |-> color, spawn |-> spawn,
    waitTimer |-> BASE_GHOST_RELEASE + order * GHOST_RELEASE_STEP ]

\* beginMove returns the actor; the move started iff ok
beginMove(st, actor, dir) ==
  LET nextRow == actor.row + dir.dy
      nextCol == IF dir.dx # 0 THEN wrapCol(st, actor.col + dir.dx)
                 ELSE actor.col + dir.dx
  IN IF ~isWithinRows(st, nextRow) \/ ~isWalkable(st, nextRow, nextCol)
     THEN [ok |-> FALSE, actor |-> actor]
     ELSE [ok |-> TRUE,
           actor |-> [actor EXCEPT !.startRow = actor.row,
                                   !.startCol = actor.col,
                                   !.targetRow = nextRow,
                                   !.targetCol = nextCol,
                                   !.direction = dir,
                                   !.moving = TRUE,
                                   !.progress = 0]]

\* variant: the excess progress is carried into the next move
advanceActor_CarriesExcess(actor, delta, speedFactor) ==
  IF ~actor.moving THEN actor
  ELSE LET p == actor.progress + actor.speed * speedFactor * delta
       IN IF p >= One
          THEN [actor EXCEPT !.row = actor.targetRow,
                             !.col = actor.targetCol,
                             !.moving = FALSE,
                             !.progress = p - One]
          ELSE [actor EXCEPT !.progress = p]

advanceActor(actor, delta, speedFactor) ==
  IF ~actor.moving THEN actor
  ELSE LET p == actor.progress + actor.speed * speedFactor * delta
       IN IF p >= One
          THEN [actor EXCEPT !.row = actor.targetRow,
                             !.col = actor.targetCol,
                             !.moving = FALSE,
                             !.progress = 0]
          ELSE [actor EXCEPT !.progress = p]

\* position in 1/8000 tile, relative to the centre of cell (0,0)
getActorPosition(actor) ==
  IF actor.moving
  THEN [x |-> actor.startCol * One + actor.direction.dx * actor.progress,
        y |-> actor.startRow * One + actor.direction.dy * actor.progress]
  ELSE [x |-> actor.col * One, y |-> actor.row * One]

\* variant: the actors collide only within a tenth of a tile
Closer_NarrowReach(a, b) ==
  LET ddx == Abs(a.x - b.x)
      ddy == Abs(a.y - b.y)
  IN /\ 10 * ddx < One
     /\ 10 * ddy < One
     /\ 100 * (ddx * ddx + ddy * ddy) < One * One

\* Math.hypot(ax - bx, ay - by) < pacRadius, without leaving 32 bits
Closer(a, b) ==
  LET ddx == Abs(a.x - b.x)
      ddy == Abs(a.y - b.y)
  IN /\ ddx < PacRadius
     /\ ddy < PacRadius
     /\ ddx * ddx + ddy * ddy < PacRadius * PacRadius


\* ------------------------------------------------------------------ audio
\* sound board stopLoop(): the timer held is cleared
stopLoop(w) ==
  IF w.loopHandle # "null"
  THEN [w EXCEPT !.loopTimers = @ - 1, !.loopHandle = "null"]
  ELSE w

\* loopHandle = setInterval(run, config.cadence)
setInterval(w) == [w EXCEPT !.loopTimers = @ + 1, !.loopHandle = "interval"]

\* variant: the pattern of the new mode is started beside the running one
setLoop_NoStop(w, mode) ==
  IF w.loopMode = mode THEN w
  ELSE LET w1 == Emit([w EXCEPT !.loopMode = mode], "setLoop")
       IN IF mode = "mute" THEN stopLoop(w1) ELSE setInterval(w1)

\* sound board setLoop(mode): the pattern timer is restarted on a change only
setLoop(w, mode) ==
  IF w.loopMode = mode THEN w
  ELSE LET w1 == stopLoop(Emit([w EXCEPT !.loopMode = mode], "setLoop"))
       IN IF mode = "mute" THEN w1 ELSE setInterval(w1)

LoopModeOf(st) ==
  IF ~st.running \/ st.gameOver \/ st.paused \/ st.freezeTimer > 0 THEN "mute"
  ELSE IF st.frightenedTimer > 0 THEN "frightened"
  ELSE "chase"

syncAudioLoop(w) == setLoop(Emit(w, "syncAudioLoop"), LoopModeOf(w.state))

\* variant: the new ghosts take over the frightened flags of the old ones
spawnActorsOnly_KeepsFlags(w) ==
  LET st == w.state
      n == Min(Len(st.ghostSpawns), MAX_GHOSTS)
  IN [w EXCEPT
        !.state.pacman = createPacman(st.pacmanSpawn),
        !.state.ghosts =
           [i \in 1 .. n |->
              [createGhost(st, st.ghostSpawns[i],
                           ghostColors[((i - 1) % Len(ghostColors)) + 1], i - 1)
                 EXCEPT !.frightened = i \in DOMAIN st.ghosts /\ st.ghosts[i].frightened]],
        !.state.frightenedTimer = 0]

\* ------------------------------------------------------- spawn and levels
spawnActorsOnly(w) ==
  LET st == w.state
      n == Min(Len(st.ghostSpawns), MAX_GHOSTS)
  IN [w EXCEPT
        !.state.pacman = createPacman(st.pacmanSpawn),
        !.state.ghosts =
           [i \in 1 .. n |->
              createGhost(st, st.ghostSpawns[i],
                          ghostColors[((i - 1) % Len(ghostColors)) + 1], i - 1)],
        !.state.frightenedTimer = 0]

spawnActors(w) ==
  [spawnActorsOnly(w) EXCEPT !.state.freezeTimer = START_DELAY]

resetLevelGrid(w) ==
  LET parsed == parseBlueprint(LEVEL_BLUEPRINT)
  IN [w EXCEPT !.state.grid = parsed.grid,
               !.state.pelletsLeft = parsed.pelletCount,
               !.state.pacmanSpawn = parsed.pacmanSpawn,
               !.state.ghostSpawns = parsed.ghostSpawns]

\* variant: the level advance respawns the actors on the emptied grid
nextLevel_KeepsGrid(w) ==
  LET w1 == Emit([w EXCEPT !.state.level = @ + 1], "level")
      w2 == spawnActors(w1)
      w3 == [w2 EXCEPT !.state.freezeTimer = START_DELAY]
  IN syncAudioLoop(w3)

\* variant: the level advance restarts the score
nextLevel_ResetsScore(w) ==
  LET w1 == Emit([w EXCEPT !.state.level = @ + 1, !.state.score = 0], "level")
      w2 == spawnActors(resetLevelGrid(w1))
      w3 == [w2 EXCEPT !.state.freezeTimer = START_DELAY]
  IN syncAudioLoop(w3)

nextLevel(w) ==
  LET w1 == Emit([w EXCEPT !.state.level = @ + 1], "level")
      w2 == spawnActors(resetLevelGrid(w1))
      w3 == [w2 EXCEPT !.state.freezeTimer = START_DELAY]
  IN syncAudioLoop(w3)

\* variant: the frightened time is not restarted while the sound board
\* already plays the frightened pattern
triggerPowerPellet_ReadsBoard(w) ==
  IF w.loopMode = "frightened" THEN w
  ELSE syncAudioLoop(
         [w EXCEPT !.state.frightenedTimer = FrightenedTime,
                   !.state.ghosts =
                      [i \in DOMAIN @ |-> [@[i] EXCEPT !.frightened = TRUE]]])

\* variant: the frightened time is extended, not replaced
triggerPowerPellet_AddsTime(w) ==
  syncAudioLoop(
    [w EXCEPT !.state.frightenedTimer = @ + FrightenedTime,
              !.state.ghosts =
                 [i \in DOMAIN @ |-> [@[i] EXCEPT !.frightened = TRUE]]])

triggerPowerPellet(w) ==
  syncAudioLoop(
    [w EXCEPT !.state.frightenedTimer = FrightenedTime,
              !.state.ghosts =
                 [i \in DOMAIN @ |-> [@[i] EXCEPT !.frightened = TRUE]]])

\* if (state.pelletsLeft <= 0) nextLevel()
levelCheck(w) == IF w.state.pelletsLeft <= 0 THEN nextLevel(w) ELSE w

\* variant: the power-pellet branch tests for the end of the level before it
\* frightens the ghosts
consumeTile_FrightensAfterLevel(w, row, col) ==
  LET tile == w.state.grid[row][col]
  IN IF tile = "pellet"
     THEN levelCheck(Emit([w EXCEPT !.state.grid[row][col] = "empty",
                                    !.state.score = @ + PelletScore,
                                    !.state.pelletsLeft = @ - 1], "pellet"))
     ELSE IF tile = "power"
     THEN triggerPowerPellet(levelCheck(
            Emit([w EXCEPT !.state.grid[row][col] = "empty",
                           !.state.score = @ + PowerScore,
                           !.state.pelletsLeft = @ - 1], "power")))
     ELSE w

\* variant: the power-pellet branch does not test for the end of the level
consumeTile_PowerNoLevel(w, row, col) ==
  LET tile == w.state.grid[row][col]
  IN IF tile = "pellet"
     THEN levelCheck(Emit([w EXCEPT !.state.grid[row][col] = "empty",
                                    !.state.score = @ + PelletScore,
                                    !.state.pelletsLeft = @ - 1], "pellet"))
     ELSE IF tile = "power"
     THEN triggerPowerPellet(
            Emit([w EXCEPT !.state.grid[row][col] = "empty",
                           !.state.score = @ + PowerScore,
                           !.state.pelletsLeft = @ - 1], "power"))
     ELSE w

consumeTile(w, row, col) ==
  LET tile == w.state.grid[row][col]
  IN IF tile = "pellet"
     THEN levelCheck(Emit([w EXCEPT !.state.grid[row][col] = "empty",
                                    !.state.score = @ + PelletScore,
                                    !.state.pelletsLeft = @ - 1], "pellet"))
     ELSE IF tile = "power"
     THEN levelCheck(triggerPowerPellet(
            Emit([w EXCEPT !.state.grid[row][col] = "empty",
                           !.state.score = @ + PowerScore,
                           !.state.pelletsLeft = @ - 1], "power")))
     ELSE w

\* ------------------------------------------------------------- game over
gameOver(w) ==
  LET w1 == Emit([w EXCEPT !.state.gameOver = TRUE,
                           !.state.running = FALSE], "gameOver")
  IN syncAudioLoop([w1 EXCEPT !.pauseDisabled = TRUE])

\* variant: a life loss reloads the level
afterDeath_ReloadsGrid(w) ==
  IF w.state.lives <= 0 THEN gameOver(w)
  ELSE syncAudioLoop(
         [spawnActorsOnly(resetLevelGrid(w)) EXCEPT !.state.freezeTimer = START_DELAY])

\* loseLife after the decrement
afterDeath(w) ==
  IF w.state.lives <= 0 THEN gameOver(w)
  ELSE syncAudioLoop(
         [spawnActorsOnly(w) EXCEPT !.state.freezeTimer = START_DELAY])

afterDeath_Late(w) ==
  IF w.state.lives < 0 THEN gameOver(w)
  ELSE syncAudioLoop(
         [spawnActorsOnly(w) EXCEPT !.state.freezeTimer = START_DELAY])

\* variant: the game-over test misses lives = 0
loseLife_LateGameOver(w) ==
  afterDeath_Late(Emit([w EXCEPT !.state.lives = @ - 1], "death"))

loseLife(w) == afterDeath(Emit([w EXCEPT !.state.lives = @ - 1], "death"))

\* ------------------------------------------------------------ ghost policy
distanceToPacman(st, row, col) ==
  LET pac == st.pacman
      pacRow == IF pac.moving THEN pac.targetRow ELSE pac.row
      pacCol == IF pac.moving THEN pac.targetCol ELSE pac.col
  IN Abs(pacRow - row) + Abs(pacCol - col)

\* variant: the reverse direction is a candidate like any other
GhostChoices_AllowsReverse(st, ghost) ==
  LET Cand(i) ==
        LET dir == directions[i]
            nextRow == ghost.row + dir.dy
            nextCol == IF dir.dx # 0 THEN wrapCol(st, ghost.col + dir.dx)
                       ELSE ghost.col + dir.dx
            legal == isWithinRows(st, nextRow) /\ isWalkable(st, nextRow, nextCol)
        IN [keep |-> legal,
            dir |-> dir,
            distance |-> IF legal THEN distanceToPacman(st, nextRow, nextCol) ELSE 0]
      all == [i \in 1 .. Len(directions) |-> Cand(i)]
  IN SelectSeq(all, LAMBDA c : c.keep)

\* the candidate list of chooseGhostDirection, in the order of `directions`
GhostChoices(st, ghost) ==
  LET availablePaths == countWalkableNeighbors(st, ghost.row, ghost.col)
      Cand(i) ==
        LET dir == directions[i]
            nextRow == ghost.row + dir.dy
            nextCol == IF dir.dx # 0 THEN wrapCol(st, ghost.col + dir.dx)
                       ELSE ghost.col + dir.dx
            legal == isWithinRows(st, nextRow) /\ isWalkable(st, nextRow, nextCol)
            isOpposite == /\ ghost.direction # Null
                          /\ dir.dx = -ghost.direction.dx
                          /\ dir.dy = -ghost.direction.dy
        IN [keep |-> legal /\ ~(isOpposite /\ availablePaths > 1),
            dir |-> dir,
            distance |-> IF legal THEN distanceToPacman(st, nextRow, nextCol) ELSE 0]
      all == [i \in 1 .. Len(directions) |-> Cand(i)]
  IN SelectSeq(all, LAMBDA c : c.keep)

\* Array.prototype.sort is stable: insertion keeps the order of equal keys
RECURSIVE InsertSorted(_, _, _)
InsertSorted(sorted, c, descending) ==
  IF sorted = << >> THEN << c >>
  ELSE IF (IF descending THEN c.distance > Head(sorted).distance
                         ELSE c.distance < Head(sorted).distance)
       THEN << c >> \o sorted
       ELSE << Head(sorted) >> \o InsertSorted(Tail(sorted), c, descending)

RECURSIVE SortChoices(_, _)
SortChoices(choices, descending) ==
  IF choices = << >> THEN << >>
  ELSE InsertSorted(SortChoices(SubSeq(choices, 1, Len(choices) - 1), descending),
                    choices[Len(choices)], descending)

pickSorted(sorted, rnd) ==
  IF rnd.sub THEN sorted[((rnd.pick * Len(sorted)) \div 20) + 1].dir
  ELSE sorted[1].dir

\* variant: a frightened ghost takes the head of the ascending order
pickChoice_FrightenedChases(ghost, choices, rnd) ==
  IF choices = << >> THEN Null
  ELSE IF ghost.frightened THEN SortChoices(choices, FALSE)[1].dir
  ELSE pickSorted(SortChoices(choices, FALSE), rnd)

pickChoice(ghost, choices, rnd) ==
  IF choices = << >> THEN Null
  ELSE IF ghost.frightened THEN SortChoices(choices, TRUE)[1].dir
  ELSE pickSorted(SortChoices(choices, FALSE), rnd)

\* rnd.sub: the first Math.random() is below 0.2; rnd.pick: the second
\* Math.random() in twentieths
chooseGhostDirection(st, ghost, rnd) ==
  pickChoice(ghost, GhostChoices(st, ghost), rnd)

\* ---------------------------------------------------- the simulation tick
\* variant: the eaten ghost keeps its frightened flag
respawnGhost_StaysFrightened(ghost) ==
  [ghost EXCEPT !.row = ghost.spawn.row, !.col = ghost.spawn.col,
                !.startRow = ghost.spawn.row, !.startCol = ghost.spawn.col,
                !.targetRow = ghost.spawn.row, !.targetCol = ghost.spawn.col,
                !.direction = Null, !.moving = FALSE, !.progress = 0,
                !.waitTimer = RespawnWait]

respawnGhost(ghost) ==
  [ghost EXCEPT !.row = ghost.spawn.row, !.col = ghost.spawn.col,
                !.startRow = ghost.spawn.row, !.startCol = ghost.spawn.col,
                !.targetRow = ghost.spawn.row, !.targetCol = ghost.spawn.col,
                !.direction = Null, !.moving = FALSE, !.progress = 0,
                !.frightened = FALSE, !.waitTimer = RespawnWait]

\* the two attempts of updatePacman on an idle player
pickMove(viaPending, viaCurrent) ==
  IF viaPending.ok THEN [viaPending.actor EXCEPT !.pendingDirection = Null]
  ELSE viaCurrent.actor

\* variant: the current direction is tried before the queued one
tryDirections_CurrentFirst(st, actor) ==
  IF actor.direction # Null /\ beginMove(st, actor, actor.direction).ok
  THEN beginMove(st, actor, actor.direction).actor
  ELSE IF actor.pendingDirection # Null
          /\ beginMove(st, actor, actor.pendingDirection).ok
  THEN [beginMove(st, actor, actor.pendingDirection).actor
          EXCEPT !.pendingDirection = Null]
  ELSE actor

tryDirections(st, actor) ==
  pickMove(IF actor.pendingDirection # Null
           THEN beginMove(st, actor, actor.pendingDirection)
           ELSE [ok |-> FALSE, actor |-> actor],
           IF actor.direction # Null
           THEN beginMove(st, actor, actor.direction)
           ELSE [ok |-> FALSE, actor |-> actor])

\* variant: the tile ahead is consumed while the player is still under way
settle_EatsAhead(w, moved) ==
  IF ~moved.moving
  THEN consumeTile([w EXCEPT !.state.pacman = moved], moved.row, moved.col)
  ELSE consumeTile([w EXCEPT !.state.pacman = moved],
                   moved.targetRow, moved.targetCol)

\* the player after advanceActor: a settled player consumes its tile
settle(w, moved) ==
  IF ~moved.moving
  THEN consumeTile([w EXCEPT !.state.pacman = moved], moved.row, moved.col)
  ELSE [w EXCEPT !.state.pacman = moved]

updatePacman(w, delta) ==
  IF w.state.pacman = Null THEN w
  ELSE settle(w, advanceActor(IF w.state.pacman.moving THEN w.state.pacman
                              ELSE tryDirections(w.state, w.state.pacman),
                              delta, NormalFactor))

steer(st, ghost, dir) ==
  IF dir # Null THEN beginMove(st, ghost, dir).actor ELSE ghost

ghostStep(st, ghost, delta, rnd) ==
  advanceActor(IF ghost.moving THEN ghost
               ELSE steer(st, ghost, chooseGhostDirection(st, ghost, rnd)),
               delta,
               IF ghost.frightened THEN FrightenedFactor ELSE NormalFactor)

\* variant: a waiting ghost moves all the same
updateGhost_MovesWhileWaiting(w, i, delta, rnd) ==
  [w EXCEPT !.state.ghosts[i] =
      ghostStep(w.state, [@ EXCEPT !.waitTimer = Max(0, @ - delta)], delta, rnd)]

\* variant: a released ghost stays on its cell
updateGhost_StaysHome(w, i, delta, rnd) ==
  IF w.state.ghosts[i].waitTimer > 0
  THEN [w EXCEPT !.state.ghosts[i].waitTimer = Max(0, @ - delta)]
  ELSE IF w.state.ghosts[i].moving
       THEN [w EXCEPT !.state.ghosts[i] = ghostStep(w.state, @, delta, rnd)]
       ELSE w

updateGhost(w, i, delta, rnd) ==
  IF w.state.ghosts[i].waitTimer > 0
  THEN [w EXCEPT !.state.ghosts[i].waitTimer = Max(0, @ - delta)]
  ELSE [w EXCEPT !.state.ghosts[i] = ghostStep(w.state, @, delta, rnd)]

\* state.ghosts.forEach(ghost => updateGhost(ghost, delta)), from index i on
RECURSIVE updateGhosts(_, _, _, _)
updateGhosts(w, i, delta, rnds) ==
  IF i > Len(w.state.ghosts) THEN w
  ELSE updateGhosts(updateGhost(w, i, delta, rnds[i]), i + 1, delta, rnds)

\* variant: the timer runs out but the ghosts stay frightened
updateFrightened_KeepsFlags(w, delta) ==
  IF w.state.frightenedTimer <= 0 THEN w
  ELSE LET t == w.state.frightenedTimer - delta
       IN IF t <= 0
          THEN syncAudioLoop([w EXCEPT !.state.frightenedTimer = 0])
          ELSE [w EXCEPT !.state.frightenedTimer = t]

updateFrightened(w, delta) ==
  IF w.state.frightenedTimer <= 0 THEN w
  ELSE LET t == w.state.frightenedTimer - delta
       IN IF t <= 0
          THEN syncAudioLoop(
                 [w EXCEPT !.state.ghosts =
                              [i \in DOMAIN @ |-> [@[i] EXCEPT !.frightened = FALSE]],
                           !.state.frightenedTimer = 0])
          ELSE [w EXCEPT !.state.frightenedTimer = t]

\* variant: the scan goes on after a capture
RECURSIVE collideFrom_NoBreak(_, _, _)
collideFrom_NoBreak(w, i, pacPos) ==
  IF i > Len(w.state.ghosts) THEN w
  ELSE LET ghost == w.state.ghosts[i]
       IN IF Closer(pacPos, getActorPosition(ghost))
          THEN IF ghost.frightened
               THEN collideFrom_NoBreak(
                      Emit([w EXCEPT !.state.score = @ + GhostScore,
                                     !.state.ghosts[i] = respawnGhost(ghost)],
                           "ghost"),
                      i + 1, pacPos)
               ELSE collideFrom_NoBreak(loseLife(w), i + 1, pacPos)
          ELSE collideFrom_NoBreak(w, i + 1, pacPos)

\* the for-of loop of checkCollisions from ghost i on; pacPos is taken once
RECURSIVE collideFrom(_, _, _)
collideFrom(w, i, pacPos) ==
  IF i > Len(w.state.ghosts) THEN w
  ELSE LET ghost == w.state.ghosts[i]
       IN IF Closer(pacPos, getActorPosition(ghost))
          THEN IF ghost.frightened
               THEN collideFrom(
                      Emit([w EXCEPT !.state.score = @ + GhostScore,
                                     !.state.ghosts[i] = respawnGhost(ghost)],
                           "ghost"),
                      i + 1, pacPos)
               ELSE loseLife(w)
          ELSE collideFrom(w, i + 1, pacPos)

checkCollisions(w) ==
  IF w.state.pacman = Null THEN w
  ELSE collideFrom(w, 1, getActorPosition(w.state.pacman))

\* variant: the collision check runs before the actors move
updateGame_CollidesFirst(w, delta, rnds) ==
  LET w0 == checkCollisions(w)
      w1 == updatePacman(w0, delta)
      w2 == updateGhosts(w1, 1, delta, rnds)
  IN updateFrightened(w2, delta)

updateGame(w, delta, rnds) ==
  LET w1 == updatePacman(w, delta)
      w2 == updateGhosts(w1, 1, delta, rnds)
      w3 == updateFrightened(w2, delta)
  IN checkCollisions(w3)

\* ------------------------------------------------------ host operations
requestAnimationFrame(w) ==
  Emit([w EXCEPT !.pendingFrames = @ + 1,
                 !.state.animationFrame = "pending"], "requestAnimationFrame")

cancelAnimationFrame(w) ==
  IF w.state.animationFrame = "pending"
  THEN [w EXCEPT !.pendingFrames = @ - 1, !.state.animationFrame = "cancelled"]
  ELSE w

\* variant: a restart forgets to leave the paused state
start_KeepsPaused(w) ==
  LET w0 == cancelAnimationFrame(w)
      w1 == [w0 EXCEPT !.state.running = TRUE,
                       !.state.gameOver = FALSE, !.state.score = 0,
                       !.state.level = 1, !.state.lives = StartLives,
                       !.pauseDisabled = FALSE]
      w2 == Emit(spawnActors(resetLevelGrid(w1)), "start")
  IN syncAudioLoop(requestAnimationFrame(w2))

\* variant: a restart does not cancel the pending frame
start_NoCancel(w) ==
  LET w1 == [w EXCEPT !.state.running = TRUE, !.state.paused = FALSE,
                      !.state.gameOver = FALSE, !.state.score = 0,
                      !.state.level = 1, !.state.lives = StartLives,
                      !.pauseDisabled = FALSE]
      w2 == Emit(spawnActors(resetLevelGrid(w1)), "start")
  IN syncAudioLoop(requestAnimationFrame(w2))

start(w) ==
  LET w0 == cancelAnimationFrame(w)
      w1 == [w0 EXCEPT !.state.running = TRUE, !.state.paused = FALSE,
                       !.state.gameOver = FALSE, !.state.score = 0,
                       !.state.level = 1, !.state.lives = StartLives,
                       !.pauseDisabled = FALSE]
      w2 == Emit(spawnActors(resetLevelGrid(w1)), "start")
  IN syncAudioLoop(requestAnimationFrame(w2))

\* variant: resuming re-applies the freeze window
togglePause_ReFreezes(w) ==
  IF ~w.state.running \/ w.state.gameOver THEN w
  ELSE syncAudioLoop([w EXCEPT !.state.paused = ~@,
                               !.state.freezeTimer =
                                  IF w.state.paused THEN START_DELAY ELSE @])

\* variant: the guard against pausing a finished game is missing
togglePause_Unguarded(w) ==
  IF ~w.state.running /\ ~w.state.gameOver THEN w
  ELSE syncAudioLoop([w EXCEPT !.state.paused = ~@])

togglePause(w) ==
  IF ~w.state.running \/ w.state.gameOver THEN w
  ELSE syncAudioLoop([w EXCEPT !.state.paused = ~@])

isRunning(st) == st.running /\ ~st.gameOver

\* variant: the key press turns the move under way
setPacmanDirection_Redirects(w, dir) ==
  IF ~isRunning(w.state) THEN w
  ELSE IF w.state.pacman = Null THEN w
  ELSE [w EXCEPT !.state.pacman.pendingDirection = dir,
                 !.state.pacman.direction = dir]

\* variant: the guard is missing
setPacmanDirection_Unguarded(w, dir) ==
  IF w.state.pacman = Null THEN w
  ELSE [w EXCEPT !.state.pacman.pendingDirection = dir]

setPacmanDirection(w, dir) ==
  IF ~isRunning(w.state) THEN w
  ELSE IF w.state.pacman = Null THEN w
  ELSE [w EXCEPT !.state.pacman.pendingDirection = dir]

reschedule(w) == IF w.state.running THEN requestAnimationFrame(w) ELSE w

\* variant: the freeze window does not hold the simulation back
loop_IgnoresFreeze(w, gap, rnds) ==
  IF ~w.state.running THEN w
  ELSE reschedule(syncAudioLoop(Emit(
         IF w.state.paused THEN w
         ELSE updateGame(w, Min(gap, MaxDelta), rnds),
         "drawGame")))

\* variant: the freeze window runs down on paused frames too
loop_ThawsWhilePaused(w, gap, rnds) ==
  IF ~w.state.running THEN w
  ELSE reschedule(syncAudioLoop(Emit(
         IF w.state.freezeTimer > 0
         THEN [w EXCEPT !.state.freezeTimer = Max(0, @ - Min(gap, MaxDelta))]
         ELSE IF w.state.paused THEN w
         ELSE updateGame(w, Min(gap, MaxDelta), rnds),
         "drawGame")))

\* variant: the frame applies the whole gap between the timestamps
loop_Unclamped(w, gap, rnds) ==
  IF ~w.state.running THEN w
  ELSE reschedule(syncAudioLoop(Emit(
         IF w.state.paused THEN w
         ELSE IF w.state.freezeTimer > 0
         THEN [w EXCEPT !.state.freezeTimer = Max(0, @ - gap)]
         ELSE updateGame(w, gap, rnds),
         "drawGame")))

\* loop(timestamp) with timestamp - state.lastTime = gap
loop(w, gap, rnds) ==
  IF ~w.state.running THEN w
  ELSE reschedule(syncAudioLoop(Emit(
         IF w.state.paused THEN w
         ELSE IF w.state.freezeTimer > 0
         THEN [w EXCEPT !.state.freezeTimer = Max(0, @ - Min(gap, MaxDelta))]
         ELSE updateGame(w, Min(gap, MaxDelta), rnds),
         "drawGame")))

\* ------------------------------------------------------------ the machine
\* the gaps between two frame timestamps that are enumerated; on the head-on
\* corridor shorter frames are enumerated too once the ghost is released
Gaps ==
  IF /\ LEVEL_BLUEPRINT = Duel
     /\ ticks >= QuietUntilDuel /\ ticks < QuietUntilDuel + ShortFrames
  THEN 1 .. MaxGap
  ELSE MinGap .. MaxGap

\* outcomes of the random draws of one chooseGhostDirection call
NoDraw == [sub |-> FALSE, pick |-> 0]
RandomDraws == { NoDraw } \cup { [sub |-> TRUE, pick |-> k] : k \in {0, 10} }

MayDraw(ghost) ==
  /\ ~ghost.moving /\ ghost.waitTimer <= 0 /\ ~ghost.frightened
  /\ LEVEL_BLUEPRINT = Shipped => ticks < FreeDraws

Become(w) ==
  /\ state' = w.state
  /\ loopMode' = w.loopMode
  /\ loopHandle' = w.loopHandle
  /\ loopTimers' = w.loopTimers
  /\ pauseDisabled' = w.pauseDisabled
  /\ pendingFrames' = w.pendingFrames
  /\ calls' = w.calls
  /\ UNCHANGED << LEVEL_BLUEPRINT, page >>

Called(op) == [World EXCEPT !.calls = << op >>]

\* the elements the page-load handler looks up and the engine dereferences
Elements ==
  { "pacmanCanvas", "pacmanScore", "pacmanLives", "pacmanLevel",
    "pacmanStatus", "pacmanStart", "pacmanPause" }

\* the listeners the page-load handler registers
Listeners == { "startButton.click", "pauseButton.click", "window.keydown" }

\* the `state` literal of createPacmanGame
createPacmanGame ==
  [ running |-> FALSE, paused |-> FALSE, gameOver |-> FALSE,
    score |-> 0, lives |-> 3, level |-> 1, pelletsLeft |-> 0,
    grid |-> << >>, pacman |-> Null, ghosts |-> << >>,
    pacmanSpawn |-> [row |-> 17, col |-> 9],
    ghostSpawns |-> << >>,
    frightenedTimer |-> 0, freezeTimer |-> 0,
    animationFrame |-> "null" ]

\* the engine built on a complete page with blueprint bp
Constructed(bp) ==
  /\ state = createPacmanGame
  /\ loopMode = "mute"
  /\ loopHandle = "null"
  /\ loopTimers = 0
  /\ pauseDisabled = TRUE
  /\ pendingFrames = 0
  /\ calls = << "createPacmanGame" >>
  /\ LEVEL_BLUEPRINT = bp
  /\ ticks = 0
  /\ page = [ dom |-> Elements, loaded |-> TRUE, listeners |-> Listeners,
              thrown |-> FALSE ]

Init == Constructed(Junction)

InList(seq, x) == \E i \in DOMAIN seq : seq[i] = x

\* the operation that ran last
Op == calls[1]

Start == Become(start(Called("start()"))) /\ ticks' = 0

\* the exploration budget of the level in play
TickBudget ==
  CASE LEVEL_BLUEPRINT = Arena -> MaxTicksArena
    [] LEVEL_BLUEPRINT = Keep -> MaxTicksKeep
    [] LEVEL_BLUEPRINT = Pen -> MaxTicksPen
    [] LEVEL_BLUEPRINT = Duel -> MaxTicksDuel
    [] LEVEL_BLUEPRINT = Shipped -> MaxTicksShipped
    [] OTHER -> MaxTicks

\* a level just entered with all lives, before its first frame
Untouched ==
  /\ ticks = 0 /\ state.running /\ ~state.paused
  /\ state.freezeTimer = START_DELAY /\ state.lives = StartLives

\* the key the host presses next on its way through the shipped level: the
\* index into `directions`, or 0 off the way
Planned(st) ==
  LET at == { j \in DOMAIN Route :
                 /\ Route[j][1] = st.lives /\ Route[j][2] = st.pelletsLeft
                 /\ Route[j][3] = st.pacman.row /\ Route[j][4] = st.pacman.col }
  IN IF at = { } THEN 0 ELSE Route[CHOOSE j \in at : TRUE][5]

\* on the shipped level the host presses the next key of its way as soon as
\* the player has settled, before the next frame
KeyDue ==
  /\ LEVEL_BLUEPRINT = Shipped
  /\ state.pacman # Null /\ isRunning(state)
  /\ ~state.pacman.moving
  /\ Planned(state) # 0
  /\ state.pacman.pendingDirection # directions[Planned(state)]

\* the host acts at this moment
HostActs ==
  CASE LEVEL_BLUEPRINT = Keep -> ticks < EarlyTicks \/ ticks >= QuietUntil
    [] LEVEL_BLUEPRINT = Gate -> ticks < EarlyTicks \/ ticks >= QuietUntilGate
    [] LEVEL_BLUEPRINT = Duel -> Untouched \/ ticks >= QuietUntilDuel
    [] LEVEL_BLUEPRINT = Shipped -> KeyDue
    [] OTHER -> TRUE

\* the host uses the pause button at this moment
HostPauses ==
  IF LEVEL_BLUEPRINT \in { Duel, Shipped } THEN Untouched ELSE HostActs

\* the direction keys the host uses: in the one-row corridor, left and right
\* on the shipped level, the next key of the host's way
Keys ==
  CASE LEVEL_BLUEPRINT = Duel -> 1 .. 2
    [] LEVEL_BLUEPRINT = Shipped -> { Planned(state) }
    [] OTHER -> 1 .. Len(directions)

TogglePause ==
  /\ HostPauses \/ state.paused
  /\ Become(togglePause(Called("togglePause()")))
  /\ UNCHANGED ticks

SetPacmanDirection ==
  /\ HostActs
  /\ \E i \in Keys :
        Become(setPacmanDirection(Called("setPacmanDirection()"), directions[i]))
  /\ UNCHANGED ticks

\* the frame runs updateGame
Ticking(st) == st.running /\ ~st.paused /\ st.freezeTimer <= 0

\* the highest level a frame may leave: on the head-on corridor the level is
\* cleared before the ghost is released or not at all
LevelCap ==
  IF LEVEL_BLUEPRINT = Duel
  THEN IF ticks < QuietUntilDuel THEN MaxDuelLevel ELSE state.level
  ELSE MaxLevel

\* the state and tick count a frame leaves; level-ups beyond LevelCap are cut
FrameDone(w) ==
  /\ w.state.level <= LevelCap
  /\ Become(w)
  /\ ticks' = IF InList(w.calls, "death") \/ InList(w.calls, "level")
              THEN 0
              ELSE IF Ticking(state) THEN ticks + 1 ELSE ticks

\* the callback whose id state.animationFrame holds leaves the queue and runs
Fired(w) ==
  [w EXCEPT !.pendingFrames = @ - 1,
            !.state.animationFrame = IF @ = "pending" THEN "fired" ELSE @]

\* a queued frame callback fires
Frame ==
  /\ pendingFrames > 0
  /\ ~KeyDue
  /\ Ticking(state) => ticks < TickBudget
  /\ \E gap \in Gaps :
       \E rnds \in [1 .. Len(state.ghosts) -> RandomDraws] :
          \* a ghost that is moving, waiting or frightened draws nothing
          /\ \A i \in 1 .. Len(state.ghosts) :
                MayDraw(state.ghosts[i]) \/ rnds[i] = NoDraw
          /\ FrameDone(loop(Fired(Called("loop()")), gap, rnds))

Next == Start \/ TogglePause \/ SetPacmanDirection \/ Frame

Spec == Init /\ [][Next]_vars

\* the same engine on the ring level
InitArena == Constructed(Arena)
SpecArena == InitArena /\ [][Next]_vars

\* the same engine on the level with the enclosed ghost
InitKeep == Constructed(Keep)
SpecKeep == InitKeep /\ [][Next]_vars

\* the same engine on the dead-end corridor
InitGate == Constructed(Gate)

\* the engine on either of these two levels
InitEither == InitGate \/ InitKeep
SpecEither == InitEither /\ [][Next]_vars

\* the engine on the ring level or on the level with the walled-in player
InitPen == Constructed(Pen)
InitRingOrPen == InitArena \/ InitPen
SpecRingOrPen == InitRingOrPen /\ [][Next]_vars

\* the same engine on the shipped level
InitShipped == Constructed(Shipped)
SpecShipped == InitShipped /\ [][Next]_vars

\* the same engine on the head-on corridor
InitDuel == Constructed(Duel)
SpecDuel == InitDuel /\ [][Next]_vars

\* ------------------------------------------------------- the parser alone
\* the characters of the blueprints parsed: the seven the parser knows and
\* one it does not
Alphabet == { "#", ".", "o", "-", " ", "P", "G", "x" }

RowsOver(n) == UNION { [1 .. k -> Alphabet] : k \in 0 .. n }

\* every blueprint of up to MaxRows rows of up to MaxCols characters each,
\* rows of unequal length included
CharGrids == UNION { [1 .. k -> RowsOver(MaxCols)] : k \in 0 .. MaxRows }

\* resetLevelGrid() on the engine as constructed
ResetLevelGrid ==
  /\ Op = "createPacmanGame"
  /\ Become(resetLevelGrid(Called("resetLevelGrid()")))
  /\ UNCHANGED ticks

InitParse == \E bp \in CharGrids : Constructed(bp)

SpecParse == InitParse /\ [][ResetLevelGrid]_vars

\* ------------------------------------------------------- the page load
\* the elements syncHud and setStatus write to
Hud == { "pacmanScore", "pacmanLives", "pacmanLevel", "pacmanStatus" }

\* start() on a page without one of them: the TypeError of syncHud or
\* setStatus ends the call after spawnActors
startUntilThrow(w) ==
  LET w0 == cancelAnimationFrame(w)
      w1 == [w0 EXCEPT !.state.running = TRUE, !.state.paused = FALSE,
                       !.state.gameOver = FALSE, !.state.score = 0,
                       !.state.level = 1, !.state.lives = StartLives,
                       !.pauseDisabled = FALSE]
  IN spawnActors(resetLevelGrid(w1))

\* togglePause() on a page without the status line: the TypeError of
\* setStatus ends the call before syncAudioLoop
togglePauseUntilThrow(w) ==
  IF ~w.state.running \/ w.state.gameOver THEN w
  ELSE [w EXCEPT !.state.paused = ~@]

\* the world and the page a handler leaves
Leave(w, p) ==
  /\ state' = w.state
  /\ loopMode' = w.loopMode
  /\ loopHandle' = w.loopHandle
  /\ loopTimers' = w.loopTimers
  /\ pauseDisabled' = w.pauseDisabled
  /\ pendingFrames' = w.pendingFrames
  /\ calls' = w.calls
  /\ page' = p
  /\ UNCHANGED << LEVEL_BLUEPRINT, ticks >>

\* the DOMContentLoaded handler
DOMContentLoaded ==
  /\ ~page.loaded
  /\ LET here == [page EXCEPT !.loaded = TRUE]
         w == Called("DOMContentLoaded")
     IN IF "pacmanCanvas" \notin page.dom
        THEN Leave(w, here)
        ELSE IF "pacmanPause" \notin page.dom
        THEN Leave(w, [here EXCEPT !.thrown = TRUE])
        ELSE IF "pacmanStart" \notin page.dom
        THEN Leave(Emit([w EXCEPT !.pauseDisabled = TRUE,
                                  !.state = createPacmanGame],
                        "createPacmanGame"),
                   [here EXCEPT !.thrown = TRUE])
        ELSE Leave(Emit([w EXCEPT !.pauseDisabled = TRUE,
                                  !.state = createPacmanGame],
                        "createPacmanGame"),
                   [here EXCEPT !.listeners = Listeners])

\* a click on the start button
ClickStart ==
  /\ "startButton.click" \in page.listeners
  /\ IF Hud \subseteq page.dom
     THEN Leave(start(Called("start()")), page)
     ELSE Leave(startUntilThrow(Called("start()")),
                [page EXCEPT !.thrown = TRUE])

\* a click on the pause button, or the space key
ClickPause ==
  /\ page.listeners \cap { "pauseButton.click", "window.keydown" } # { }
  /\ IF "pacmanStatus" \in page.dom
     THEN Leave(togglePause(Called("togglePause()")), page)
     ELSE Leave(togglePauseUntilThrow(Called("togglePause()")),
                [page EXCEPT !.thrown = @ \/ (state.running /\ ~state.gameOver)])

\* a direction key
KeyDown ==
  /\ "window.keydown" \in page.listeners
  /\ \E i \in 1 .. Len(directions) :
        Leave(setPacmanDirection(Called("setPacmanDirection()"), directions[i]),
              page)

\* a page that lacks at least one of the elements, before it has loaded
InitPage ==
  /\ state = Null
  /\ loopMode = "mute"
  /\ loopHandle = "null"
  /\ loopTimers = 0
  /\ pauseDisabled = FALSE
  /\ pendingFrames = 0
  /\ calls = << >>
  /\ LEVEL_BLUEPRINT = Junction
  /\ ticks = 0
  /\ page \in { [ dom |-> d, loaded |-> FALSE, listeners |-> { },
                   thrown |-> FALSE ] : d \in (SUBSET Elements) \ { Elements } }

NextPage == DOMContentLoaded \/ ClickStart \/ ClickPause \/ KeyDown

SpecPage == InitPage /\ [][NextPage]_vars


\* ================================================================ claims
Count(seq, x) == Cardinality({ i \in DOMAIN seq : seq[i] = x })
Started == state.pacman # Null
Actors == IF Started
          THEN { state.pacman } \cup { state.ghosts[i] : i \in DOMAIN state.ghosts }
          ELSE { }
Rows == Cardinality(DOMAIN state.grid)
Cols == Cardinality(DOMAIN state.grid[0])
Consumables(grid) ==
  Cardinality({ rc \in (DOMAIN grid) \X (DOMAIN grid[0]) :
                 grid[rc[1]][rc[2]] \in {"pellet", "power"} })
AtSpawn(actor, spawn) ==
  /\ actor.row = spawn.row /\ actor.col = spawn.col
  /\ ~actor.moving /\ actor.progress = 0

\* the state start() is to leave behind
FullReset(st) ==
  /\ st.score = 0 /\ st.level = 1 /\ st.lives = 3
  /\ ~st.paused /\ ~st.gameOver /\ st.running
  /\ st.grid = parseBlueprint(LEVEL_BLUEPRINT).grid
  /\ st.pelletsLeft = Consumables(st.grid)
  /\ AtSpawn(st.pacman, st.pacmanSpawn)
  /\ st.pacman.pendingDirection = Null
  /\ Len(st.ghosts) = Min(Len(st.ghostSpawns), MAX_GHOSTS)
  /\ \A i \in DOMAIN st.ghosts :
        AtSpawn(st.ghosts[i], st.ghostSpawns[i]) /\ ~st.ghosts[i].frightened
  /\ st.frightenedTimer = 0
  /\ st.freezeTimer = 60

Phase(st) ==
  IF st.gameOver THEN "gameOver"
  ELSE IF ~st.running THEN "idle"
  ELSE IF st.paused THEN "paused"
  ELSE "running"

\* C1: after start() lives is 3; a capture by a non-frightened ghost lowers
\* lives by exactly 1 and only start() raises it; the capture that brings
\* lives to 0 sets gameOver, clears running and leaves no frame scheduled;
\* always 0 <= lives <= 3, and lives = 0 exactly when gameOver.
C1_Step ==
  /\ Op' = "start()" => state'.lives = 3
  /\ state'.lives >= 0 /\ state'.lives <= 3
  /\ (state'.lives = 0) <=> state'.gameOver
  /\ Op' # "start()" =>
       /\ state'.lives = state.lives - Count(calls', "death")
       /\ Count(calls', "death") <= 1
  /\ state'.lives > state.lives => Op' = "start()"
  /\ state'.gameOver =>
       /\ ~state'.running
       /\ pendingFrames' = 0
  /\ state.gameOver => Op' # "loop()"
C1_LivesAndGameOver == [][C1_Step]_vars
C1_Witness ==
  /\ state.gameOver /\ state.lives = 0
  /\ Op = "loop()" /\ Count(calls, "death") = 1


\* C2: start(), called in any state, performs the full reset: score 0,
\* level 1, lives 3, not paused, not over, running, fresh grid with
\* pelletsLeft its consumable count, actors idle at their spawn cells,
\* frightenedTimer 0, freezeTimer 1.5 s, and one frame callback scheduled.
C2_Step ==
  Op' = "start()" =>
    /\ FullReset(state')
    /\ state'.animationFrame = "pending"
    /\ pendingFrames' = 1
C2_StartResets == [][C2_Step]_vars
\* start() on a game that was running unpaused outside the freeze window:
\* the loop mode had to be switched back to mute
C2_Witness ==
  /\ Op = "start()" /\ Count(calls, "setLoop") = 1
  /\ FullReset(state)

\* C3: once gameOver is true, togglePause(), setPacmanDirection() and frames
\* change no Game State field and only start() leaves gameOver, through the
\* full reset; the lifecycle moves only idle -> running, running <-> paused,
\* running -> gameOver and (any) -> running by start().
C3_Step ==
  /\ state.gameOver /\ Op' # "start()" =>
        state' = state /\ pauseDisabled' = pauseDisabled
  /\ state.gameOver /\ ~state'.gameOver =>
        Op' = "start()" /\ FullReset(state')
  /\ state'.gameOver => ~state'.running /\ ~state'.paused
  /\ Phase(state') # Phase(state) =>
        \/ Op' = "start()" /\ Phase(state') = "running"
        \/ /\ Op' # "start()"
           /\ << Phase(state), Phase(state') >> \in
                { << "running", "paused" >>, << "paused", "running" >>,
                  << "running", "gameOver" >> }
C3_GameOverTerminal == [][C3_Step]_vars
C3_Witness == state.gameOver /\ Op = "togglePause()"

\* C4: togglePause() changes nothing before the first start() and after
\* game over; otherwise it flips paused and changes no other Game State
\* field, so a second togglePause() restores the state.
C4_Step ==
  Op' = "togglePause()" =>
    /\ state' = IF state.running /\ ~state.gameOver
                THEN [state EXCEPT !.paused = ~state.paused]
                ELSE state
    /\ togglePause([World EXCEPT !.state = state']).state = state
C4_TogglePauseFrame == [][C4_Step]_vars
\* a game resumed in the middle of play
C4_Witness ==
  /\ Op = "togglePause()" /\ state.running /\ ~state.paused
  /\ state.freezeTimer = 0 /\ ticks > 0

\* C5: setPacmanDirection(dir) while paused, after game over or before
\* start() changes nothing, in particular not the pending direction.
C5_Step ==
  Op' = "setPacmanDirection()"
    /\ (state.paused \/ state.gameOver \/ ~state.running)
  => state' = state
C5_InputIgnoredWhilePausedOrOver == [][C5_Step]_vars

\* distance between two cells, a step through the tunnel counting 1
WrapDistance(r1, c1, r2, c2) ==
  Abs(r1 - r2) + Min(Abs(c1 - c2), Cols - Abs(c1 - c2))

\* C6: every actor whose moving flag is true has its target cell at
\* distance exactly 1 from its start cell (through the tunnel included),
\* the target is not a wall, and its direction has exactly one non-zero axis.
C6_MovingTargetAdjacent ==
  \A a \in Actors :
     a.moving =>
       /\ WrapDistance(a.startRow, a.startCol, a.targetRow, a.targetCol) = 1
       /\ state.grid[a.targetRow][a.targetCol] # "wall"
       /\ a.direction # Null
       /\ Abs(a.direction.dx) + Abs(a.direction.dy) = 1


ZeroDirection == [dx |-> 0, dy |-> 0]
AnyDirection == { directions[i] : i \in DOMAIN directions } \cup { ZeroDirection }

\* C7: beginMove(actor, dir) succeeds exactly when the candidate cell - the
\* settled cell plus dir, its column wrapped to the opposite edge for a
\* horizontal move only - has its row inside the grid and is not a wall; on
\* success start = settled cell, target = candidate, direction = dir,
\* moving = TRUE and progress = 0.
C7_BeginMoveTarget ==
  \A a \in Actors : \A d \in AnyDirection :
     LET r == beginMove(state, a, d)
         candRow == a.row + d.dy
         candCol == IF d.dx # 0 THEN (a.col + d.dx + Cols) % Cols ELSE a.col
     IN /\ r.ok <=> /\ candRow \in 0 .. Rows - 1
                    /\ state.grid[candRow][candCol] # "wall"
        /\ r.ok =>
             /\ r.actor.startRow = a.row /\ r.actor.startCol = a.col
             /\ r.actor.targetRow = candRow /\ r.actor.targetCol = candCol
             /\ r.actor.row = a.row /\ r.actor.col = a.col
             /\ r.actor.direction = d
             /\ r.actor.moving /\ r.actor.progress = 0
\* the player under way through the tunnel, from the right edge to column 0
C7_Witness ==
  /\ Started /\ state.pacman.moving /\ state.pacman.progress > 0
  /\ state.pacman.direction.dx = 1
  /\ state.pacman.startCol = Cols - 1 /\ state.pacman.targetCol = 0

\* C8: progress lies in [0,1] and is 0 whenever moving is false;
\* advanceActor settles the actor exactly on its target, clears moving and
\* drops the excess when the accumulated progress reaches 1, adds the
\* increment otherwise, and leaves a non-moving actor as it is.
C8_AdvanceActorProgress ==
  \A a \in Actors :
     /\ a.progress >= 0 /\ a.progress <= One
     /\ ~a.moving => a.progress = 0
     /\ \A delta \in 1 .. MaxDelta : \A f \in {FrightenedFactor, NormalFactor} :
          LET b == advanceActor(a, delta, f)
              p == a.progress + a.speed * f * delta
          IN /\ b.progress >= 0 /\ b.progress <= One
             /\ ~b.moving => b.progress = 0
             /\ ~a.moving => b = a
             /\ a.moving /\ p >= One =>
                  /\ b.row = a.targetRow /\ b.col = a.targetCol
                  /\ ~b.moving /\ b.progress = 0
             /\ a.moving /\ p < One =>
                  /\ b.row = a.row /\ b.col = a.col
                  /\ b.moving /\ b.progress = p
\* the player one tick before it settles with excess progress
C8_Witness ==
  /\ Started /\ state.pacman.moving
  /\ state.pacman.progress + PacmanSpeed * NormalFactor * MaxDelta > One

Eaten(c) == Count(c, "pellet") + Count(c, "power")

\* C9: pelletsLeft never increases during a level and falls by exactly 1
\* with each consumption; nextLevel() runs in a tick exactly when that tick
\* eats the last consumable, pellet or power-pellet.
C9_Step ==
  /\ Op' \notin {"loop()", "start()"} =>
        /\ state'.pelletsLeft = state.pelletsLeft
        /\ state'.level = state.level
  /\ Op' = "loop()" =>
        /\ Eaten(calls') <= 1
        /\ Count(calls', "level") =
             IF Eaten(calls') = 1 /\ state.pelletsLeft = 1 THEN 1 ELSE 0
        /\ state'.level = state.level + Count(calls', "level")
        /\ Count(calls', "level") = 0 =>
             state'.pelletsLeft = state.pelletsLeft - Eaten(calls')
        /\ state'.pelletsLeft > state.pelletsLeft => Count(calls', "level") = 1
C9_PelletsLeftAndLevel == [][C9_Step]_vars
\* the level ended by a power-pellet
C9_Witness ==
  /\ Op = "loop()" /\ Count(calls, "power") = 1 /\ Count(calls, "level") = 1
  /\ state.level = 2

\* C10: outside start() the score changes only by +10 per pellet, +50 per
\* power-pellet and +200 per frightened ghost eaten; it is never negative,
\* never decreases during a run and is set to 0 by start() only.
C10_Step ==
  /\ state'.score >= 0
  /\ Op' = "start()" => state'.score = 0
  /\ Op' # "start()" =>
        /\ state'.score = state.score + PelletScore * Count(calls', "pellet")
                                      + PowerScore * Count(calls', "power")
                                      + GhostScore * Count(calls', "ghost")
        /\ state'.score >= state.score
C10_ScoreDeltas == [][C10_Step]_vars
\* a frightened ghost eaten on level 2, the score carried over the level advance
C10_Witness ==
  /\ Op = "loop()" /\ Count(calls, "ghost") = 1
  /\ state.level = 2 /\ state.score >= 260

\* a frame that runs updateGame
Tick == Op' = "loop()" /\ Ticking(state)
\* the moving player reaches its target in a tick of the full frame delta
Arrives(actor, factor) ==
  actor.moving /\ actor.progress + actor.speed * factor * MaxDelta >= One
Cells(grid) == (DOMAIN grid) \X (DOMAIN grid[0])
Ahead(actor, dir) ==
  << actor.row + dir.dy,
     IF dir.dx # 0 THEN (actor.col + dir.dx + Cols) % Cols ELSE actor.col >>

\* C11: an idle player with a pellet on the adjacent cell in its queued
\* direction starts moving onto that cell; in the tick in which the player
\* settles on a pellet the tile becomes empty, the score rises by 10 (beside
\* ghost bonuses) and pelletsLeft falls by 1 (to 0 when the level ends
\* there); an empty tile stays empty during the level, and a tick in which
\* the player stands on or settles into an empty tile eats nothing.
C11_Step ==
  Tick =>
    LET pac == state.pacman
        to == << pac.targetRow, pac.targetCol >>
        lands == Arrives(pac, NormalFactor)
        died == Count(calls', "death") = 1
        levelled == Count(calls', "level") = 1
    IN /\ ~pac.moving => state.grid[pac.row][pac.col] = "empty"
       /\ ~pac.moving /\ pac.pendingDirection # Null /\ ~died =>
            LET cell == Ahead(pac, pac.pendingDirection)
            IN cell[1] \in 0 .. Rows - 1 /\ state.grid[cell[1]][cell[2]] = "pellet"
               => /\ state'.pacman.moving
                  /\ << state'.pacman.targetRow, state'.pacman.targetCol >> = cell
                  /\ state'.pacman.pendingDirection = Null
       /\ lands /\ state.grid[to[1]][to[2]] = "pellet" =>
            /\ Count(calls', "pellet") = 1 /\ Count(calls', "power") = 0
            /\ state'.score = state.score + PelletScore
                                + GhostScore * Count(calls', "ghost")
            /\ IF levelled THEN state.pelletsLeft = 1
               ELSE /\ state'.grid = [state.grid EXCEPT ![to[1]][to[2]] = "empty"]
                    /\ state'.pelletsLeft = state.pelletsLeft - 1
       /\ ~(lands /\ state.grid[to[1]][to[2]] \in {"pellet", "power"}) =>
            /\ Eaten(calls') = 0
            /\ state'.grid = state.grid
            /\ state'.pelletsLeft = state.pelletsLeft
            /\ state'.score = state.score + GhostScore * Count(calls', "ghost")
       /\ ~levelled =>
            \A rc \in Cells(state.grid) :
               state.grid[rc[1]][rc[2]] = "empty" => state'.grid[rc[1]][rc[2]] = "empty"
C11_PelletConsumedOnSettle == [][C11_Step]_vars
\* the pellet right of the spawn cell eaten, the power-pellet still there
C11_Witness ==
  /\ Op = "loop()" /\ Count(calls, "pellet") = 1 /\ Count(calls, "level") = 0
  /\ state.score = PelletScore /\ state.pelletsLeft = 1
  /\ ~state.pacman.moving /\ state.grid[state.pacman.row][state.pacman.col] = "empty"

\* ghost i was eaten in the step: it is back at its spawn cell as
\* respawnGhost leaves it
JustRespawned(g) ==
  /\ AtSpawn(g, g.spawn) /\ ~g.frightened /\ g.direction = Null
  /\ g.waitTimer = RespawnWait

\* C12: consuming a power-pellet sets frightenedTimer to 8 s, whatever
\* time was left, and marks every ghost of the list frightened, waiting or
\* respawned ones included; at the end of that tick the timer has decayed by
\* the tick's delta only and every ghost not eaten in the tick is frightened.
C12_Step ==
  /\ Started =>
        LET after == triggerPowerPellet(World).state
        IN /\ after.frightenedTimer = FrightenedTime
           /\ \A i \in DOMAIN after.ghosts :
                 after.ghosts[i] = [state.ghosts[i] EXCEPT !.frightened = TRUE]
           /\ after = [state EXCEPT !.frightenedTimer = after.frightenedTimer,
                                    !.ghosts = after.ghosts]
  /\ Tick /\ Count(calls', "power") = 1
       /\ Count(calls', "level") = 0 /\ Count(calls', "death") = 0 =>
        /\ state'.frightenedTimer = FrightenedTime - MaxDelta
        /\ Len(state'.ghosts) = Len(state.ghosts)
        /\ \A i \in DOMAIN state'.ghosts :
              \/ state'.ghosts[i].frightened
              \/ Count(calls', "ghost") >= 1 /\ JustRespawned(state'.ghosts[i])
C12_PowerPelletFrightensAll == [][C12_Step]_vars
\* the second power-pellet eaten three ticks after the first, both ghosts
\* still waiting for their release
C12_Witness ==
  /\ Op = "loop()" /\ Count(calls, "power") = 1 /\ ticks = 6
  /\ state.grid[0][2] = "empty" /\ state.grid[0][3] = "empty"
  /\ state.grid[0][0] = "pellet"
  /\ state.frightenedTimer = FrightenedTime - MaxDelta
  /\ \A i \in DOMAIN state.ghosts :
        state.ghosts[i].frightened /\ state.ghosts[i].waitTimer > 0

Flags(st) == [i \in DOMAIN st.ghosts |-> st.ghosts[i].frightened]

\* C13: frightenedTimer is never negative; taking FrightenedTime minus the
\* timer as the tick time elapsed since the last power-pellet, every tick
\* without a power-pellet adds its delta to it and no other frame adds
\* anything (paused and frozen frames leave timer and flags alone); in the
\* tick in which the 8 s are reached the timer is exactly 0 and every ghost's
\* frightened flag is cleared at once, so a frightened ghost is found only
\* while the timer is positive.  (A respawn of the actors, after a capture
\* or a level advance, ends the frightened mode early.)
C13_Step ==
  LET died == Count(calls', "death") = 1
      levelled == Count(calls', "level") = 1
      power == Count(calls', "power") = 1
  IN /\ state'.frightenedTimer >= 0 /\ state'.frightenedTimer <= FrightenedTime
     /\ Started' /\ state'.frightenedTimer = 0 =>
           \A i \in DOMAIN state'.ghosts : ~state'.ghosts[i].frightened
     /\ Op' = "start()" => state'.frightenedTimer = 0
     /\ Op' # "start()" /\ ~Tick =>
           /\ state'.frightenedTimer = state.frightenedTimer
           /\ Started => Flags(state') = Flags(state)
     /\ Tick /\ (died \/ levelled) /\ ~state'.gameOver =>
           state'.frightenedTimer = 0
     /\ Tick /\ ~died /\ ~levelled /\ ~power =>
           /\ state'.frightenedTimer = Max(0, state.frightenedTimer - MaxDelta)
           /\ state'.frightenedTimer > 0 =>
                 \A i \in DOMAIN state.ghosts :
                    state'.ghosts[i].frightened
                      = (state.ghosts[i].frightened
                           /\ ~JustRespawned(state'.ghosts[i]))
C13_FrightenedExpiry == [][C13_Step]_vars
\* the tick that ends the frightened mode begun by the power-pellet eaten in
\* the third tick after start(): 160 ticks of 50 ms later both ghosts are
\* back to normal and the loop pattern has been switched to chase
C13_Witness ==
  /\ Op = "loop()" /\ Count(calls, "setLoop") = 1 /\ loopMode = "chase"
  /\ state.lives = StartLives /\ state.score = PowerScore
  /\ ticks = 2 + FrightenedTime \div MaxDelta
  /\ state.frightenedTimer = 0
  /\ Len(state.ghosts) = 2
  /\ \A i \in DOMAIN state.ghosts : ~state.ghosts[i].frightened

\* the tick ends the frightened mode unless a power-pellet renews it
Expiring == state.frightenedTimer > 0 /\ state.frightenedTimer <= MaxDelta

\* the draws a frame can make: one per ghost, none for a ghost that cannot draw
FrameDraws ==
  { rnds \in [1 .. Len(state.ghosts) -> RandomDraws] :
      \A i \in 1 .. Len(state.ghosts) :
         MayDraw(state.ghosts[i]) \/ rnds[i] = NoDraw }

\* the game as checkCollisions finds it in a tick: player and ghosts updated,
\* frightened timer decayed
BeforeCollisions(rnds) ==
  updateFrightened(
    updateGhosts(updatePacman(World, MaxDelta), 1, MaxDelta, rnds),
    MaxDelta).state

\* ghost i of st is within 0.4 tile of the player of st
InRange(st, i) ==
  Closer(getActorPosition(st.pacman), getActorPosition(st.ghosts[i]))

\* the ghosts of st within range, and the first of them in list order
Touching(st) == { i \in DOMAIN st.ghosts : InRange(st, i) }
First(S) == CHOOSE i \in S : \A j \in S : i <= j

TickEnds == Count(calls', "death") = 1 \/ Count(calls', "level") = 1

\* what C14 asks of a tick whose collision check starts from pre
C14_Outcome(pre) ==
  /\ \A i \in DOMAIN pre.ghosts :
        /\ InRange(pre, i)
              = Closer(getActorPosition(pre.ghosts[i]), getActorPosition(pre.pacman))
        /\ ~InRange(pre, i) /\ Count(calls', "death") = 0 =>
              state'.ghosts[i] = pre.ghosts[i]
  /\ Touching(pre) = { } =>
        /\ Count(calls', "ghost") = 0 /\ Count(calls', "death") = 0
        /\ state' = [pre EXCEPT !.animationFrame = "pending"]
  /\ Touching(pre) # { } =>
        LET j == First(Touching(pre))
        IN IF pre.ghosts[j].frightened
           THEN /\ Count(calls', "ghost") >= 1
                /\ state'.score >= pre.score + GhostScore
                /\ Count(calls', "death") = 0 =>
                      /\ state'.lives = state.lives
                      /\ JustRespawned(state'.ghosts[j])
                      /\ state'.ghosts[j].spawn = state.ghostSpawns[j]
                      /\ state'.ghosts[j] = respawnGhost(pre.ghosts[j])
           ELSE /\ Count(calls', "death") = 1 /\ Count(calls', "ghost") = 0
                /\ state'.lives = state.lives - 1
                /\ state'.score = pre.score

\* C14: at the collision check of a tick, a ghost at 0.4 tile or more from
\* the player is left alone; the first ghost closer than that is eaten if its
\* frightened flag is set at that moment (+200, back at its spawn cell, idle,
\* not frightened, release-wait 2 s, lives unchanged) and costs exactly one
\* life otherwise; the distance test gives the same answer with the two
\* positions exchanged.
C14_Step ==
  Tick /\ Count(calls', "level") = 0 =>
    \E rnds \in FrameDraws : C14_Outcome(BeforeCollisions(rnds))
C14_CollisionOutcome == [][C14_Step]_vars
\* a frightened ghost eaten on its way out of its cell, away from its spawn
C14_Witness ==
  /\ Op = "loop()" /\ Count(calls, "ghost") = 1 /\ Count(calls, "death") = 0
  /\ state.lives = StartLives /\ state.frightenedTimer > 0
  /\ JustRespawned(state.ghosts[1])
  /\ ~InRange(state, 1)

\* the ghosts of st that would capture the player
Captors(st) == { i \in Touching(st) : ~st.ghosts[i].frightened }

\* the ghosts eaten by a scan of st: the frightened ones in range, up to the
\* first captor
Meal(st) ==
  { i \in Touching(st) :
      /\ st.ghosts[i].frightened
      /\ \A c \in Captors(st) : i < c }

C15_Outcome(pre) ==
  /\ Count(calls', "death") = (IF Captors(pre) = { } THEN 0 ELSE 1)
  /\ state'.lives = state.lives - Count(calls', "death")
  /\ Count(calls', "ghost") = Cardinality(Meal(pre))
  /\ state'.score = pre.score + GhostScore * Cardinality(Meal(pre))
  /\ Captors(pre) = { } \/ state'.gameOver =>
        \A i \in DOMAIN pre.ghosts :
           state'.ghosts[i] = IF i \in Meal(pre) THEN respawnGhost(pre.ghosts[i])
                              ELSE pre.ghosts[i]

\* C15: one tick takes at most one life, however many non-frightened ghosts
\* are in range; the scan of the ghost list eats every frightened ghost in
\* range that comes before the first captor (+200 each) and stops at the
\* captor: ghosts after it are neither eaten nor do they take a life.
C15_Step ==
  /\ state'.lives >= state.lives - 1 \/ Op' = "start()"
  /\ Tick /\ Count(calls', "level") = 0 =>
       \E rnds \in FrameDraws : C15_Outcome(BeforeCollisions(rnds))
Reverse(dir) == [dx |-> -dir.dx, dy |-> -dir.dy]
Open(cell) == cell[1] \in 0 .. Rows - 1 /\ state.grid[cell[1]][cell[2]] # "wall"
Exits(g) == { d \in AnyDirection \ { ZeroDirection } : Open(Ahead(g, d)) }

\* the candidate directions of an idle ghost: the open ones, without the
\* reverse of its last direction unless that is the only exit
Candidates(g) ==
  { d \in Exits(g) :
      ~(g.direction # Null /\ d = Reverse(g.direction) /\ Cardinality(Exits(g)) > 1) }

\* Manhattan distance from cell to the player's effective position in st
Gap(st, cell) ==
  LET pac == st.pacman
  IN IF pac.moving
     THEN Abs(cell[1] - pac.targetRow) + Abs(cell[2] - pac.targetCol)
     ELSE Abs(cell[1] - pac.row) + Abs(cell[2] - pac.col)

Farthest(st, g, d) ==
  \A e \in Candidates(g) : Gap(st, Ahead(g, d)) >= Gap(st, Ahead(g, e))
Nearest(st, g, d) ==
  \A e \in Candidates(g) : Gap(st, Ahead(g, d)) <= Gap(st, Ahead(g, e))

\* the ghost is about to choose a direction
Choosing(g) == g.waitTimer <= 0 /\ ~g.moving

\* what C16 asks of ghost i, which the ghost update of the tick finds in st
C16_Choice(st, i) ==
  LET g == st.ghosts[i]
  IN Choosing(g) =>
       /\ \A rnd \in RandomDraws :
             LET d == chooseGhostDirection(st, g, rnd)
             IN /\ Candidates(g) = { } => d = Null
                /\ Candidates(g) # { } =>
                     /\ d \in Candidates(g)
                     /\ g.frightened => Farthest(st, g, d)
                     /\ ~g.frightened /\ ~rnd.sub => Nearest(st, g, d)
       /\ Candidates(g) # { } /\ ~TickEnds /\ ~JustRespawned(state'.ghosts[i]) =>
             /\ state'.ghosts[i].moving
             /\ state'.ghosts[i].direction \in Candidates(g)
             /\ g.frightened => Farthest(st, g, state'.ghosts[i].direction)

\* C16: an idle ghost that is frightened starts towards a candidate cell of
\* maximum Manhattan distance to the player's effective position (target
\* cell of a moving player, settled cell otherwise); one that is not
\* frightened starts towards a candidate of minimum distance unless the
\* random substitution fires, and towards some candidate if it does.
C16_Step ==
  Tick =>
    \A i \in DOMAIN state.ghosts :
       Len(updatePacman(World, MaxDelta).state.ghosts) = Len(state.ghosts) =>
         C16_Choice(updatePacman(World, MaxDelta).state, i)
C16_GhostDirectionChoice == [][C16_Step]_vars
\* the first ghost, frightened, leaves its cell by the exit that is farther
\* from the player than the other one
C16_Witness ==
  /\ Op = "loop()" /\ Count(calls, "death") = 0
  /\ Len(state.ghosts) = 2
  /\ LET g == state.ghosts[1]
     IN /\ g.moving /\ g.frightened
        /\ g.progress = GhostBaseSpeed * FrightenedFactor * MaxDelta
        /\ g.startCol = g.spawn.col
        /\ Gap(state, << g.targetRow, g.targetCol >>)
             > Gap(state, << g.row, (g.col - g.direction.dx + Cols) % Cols >>)

\* C17: on a page that lacks the canvas or one of the HUD, status, start
\* or pause elements, the page-load handler declines to initialise without
\* an error leaving it: no game is created, no listener is registered, and
\* nothing is thrown then or on a later input.
C17_DeclinesOnMissingElement ==
  page.loaded /\ page.dom # Elements =>
    /\ ~page.thrown
    /\ state = Null
    /\ page.listeners = { }

\* a frame taken by a running game
FrameOf(st) == Op' = "loop()" /\ st.running

\* C18: a frame taken while paused or while freezeTimer > 0 runs no actor or
\* collision update: player, ghosts (cells, progress, directions, wait
\* timers), grid, pelletsLeft, score, lives, level and frightenedTimer are as
\* before the frame, and none of the tick's events occurs.
C18_Step ==
  FrameOf(state) /\ (state.paused \/ state.freezeTimer > 0) =>
    /\ state'.pacman = state.pacman
    /\ state'.ghosts = state.ghosts
    /\ state'.grid = state.grid
    /\ state'.pelletsLeft = state.pelletsLeft
    /\ state'.score = state.score
    /\ state'.lives = state.lives
    /\ state'.level = state.level
    /\ state'.frightenedTimer = state.frightenedTimer
    /\ state'.paused = state.paused
    /\ \A e \in {"pellet", "power", "ghost", "death", "level", "gameOver"} :
          Count(calls', e) = 0
C18_NoUpdateWhilePausedOrFrozen == [][C18_Step]_vars
\* a frame taken while paused in mid-move, a ghost frightened
C18_Witness ==
  /\ Op = "loop()" /\ state.paused /\ state.freezeTimer = 0
  /\ state.pacman.moving /\ state.pacman.progress > 0
  /\ state.frightenedTimer > 0

\* C19 as stated: on a frame taken while paused with freezeTimer > 0, the
\* freeze timer decays by the frame's delta, not below 0.
C19_Step ==
  FrameOf(state) /\ state.paused /\ state.freezeTimer > 0 =>
    state'.freezeTimer = Max(0, state.freezeTimer - MaxDelta)
C19_FreezeDecaysWhilePaused == [][C19_Step]_vars

\* C19, amended: the freeze timer decays by the frame's delta, not below 0,
\* on every unpaused frame inside the freeze window; a frame taken while
\* paused leaves it as it is, and so does every call of togglePause() and
\* setPacmanDirection().
C19_AmendedStep ==
  /\ FrameOf(state) /\ ~state.paused /\ state.freezeTimer > 0 =>
        state'.freezeTimer = Max(0, state.freezeTimer - MaxDelta)
  /\ FrameOf(state) /\ state.paused =>
        state'.freezeTimer = state.freezeTimer
  /\ Op' \in {"togglePause()", "setPacmanDirection()"} =>
        state'.freezeTimer = state.freezeTimer
  /\ state'.freezeTimer >= 0 /\ state'.freezeTimer <= START_DELAY
C19_FreezeHeldWhilePaused == [][C19_AmendedStep]_vars
\* a frame taken while paused half-way through the freeze window
C19_Witness ==
  /\ Op = "loop()" /\ state.paused
  /\ state.freezeTimer > 0 /\ state.freezeTimer < START_DELAY

\* the events of the player update come before those of the collision check
EventsInOrder(c) ==
  \A i \in DOMAIN c : \A j \in DOMAIN c :
     c[i] \in {"pellet", "power"} /\ c[j] \in {"ghost", "death"} => i < j

C20_Outcome(pre) ==
  /\ (Touching(pre) = { })
        = (Count(calls', "ghost") + Count(calls', "death") = 0)
  /\ Count(calls', "power") = 1 =>
        /\ Count(calls', "death") = 0
        /\ Count(calls', "ghost") = Cardinality(Touching(pre))
        /\ \A i \in Touching(pre) : JustRespawned(state'.ghosts[i])
  /\ Expiring /\ Count(calls', "power") = 0 =>
        /\ Count(calls', "ghost") = 0
        /\ Touching(pre) # { } => Count(calls', "death") = 1
        /\ Touching(pre) # { } => state'.lives = state.lives - 1

\* C20: a tick updates the player (tile consumption included), then the
\* ghosts, then the frightened timer, then checks collisions on the resulting
\* positions: a ghost in range at the end of the tick in which the player
\* settles on a power-pellet is eaten, whatever its flag was before the tick,
\* and a ghost in range at the end of the tick in which the frightened timer
\* runs out takes a life.
C20_Step ==
  Tick =>
    /\ EventsInOrder(calls')
    /\ Count(calls', "level") = 0 =>
          \E rnds \in FrameDraws : C20_Outcome(BeforeCollisions(rnds))
C20_TickOrder == [][C20_Step]_vars
\* a ghost that was not frightened, eaten on its way onto the power-pellet
\* on which the player settles in the same tick
C20_Witness ==
  /\ LEVEL_BLUEPRINT = Gate
  /\ Op = "loop()" /\ Count(calls, "power") = 1 /\ Count(calls, "ghost") = 1
  /\ state.score = PowerScore + GhostScore
  /\ state.lives = StartLives /\ ticks > BASE_GHOST_RELEASE \div MaxDelta
  /\ ~state.pacman.moving
  /\ state.pacman.row = 1 /\ state.pacman.col = state.ghosts[1].col
  /\ JustRespawned(state.ghosts[1])
\* the other case: a life lost to a ghost touched in the tick in which the
\* frightened timer ran out, no ghost eaten before
C20_ExpiryCapture ==
  /\ LEVEL_BLUEPRINT = Keep
  /\ Op = "loop()" /\ Count(calls, "death") = 1 /\ Count(calls, "ghost") = 0
  /\ state.score = PowerScore /\ state.lives = StartLives - 1
  /\ state.frightenedTimer = 0 /\ ticks = 0

\* what nextLevel() makes of `before`, given the score and lives it found
C21_After(before, after, score, lives) ==
  /\ after.level = before.level + 1
  /\ after.grid = parseBlueprint(LEVEL_BLUEPRINT).grid
  /\ after.pelletsLeft = Consumables(after.grid)
  /\ after.pelletsLeft > 0
  /\ AtSpawn(after.pacman, after.pacmanSpawn)
  /\ after.pacman.pendingDirection = Null
  /\ Len(after.ghosts) = Len(before.ghosts)
  /\ \A i \in DOMAIN after.ghosts :
        /\ AtSpawn(after.ghosts[i], after.ghostSpawns[i])
        /\ ~after.ghosts[i].frightened
        /\ after.ghosts[i].speed
             = GhostBaseSpeed + GhostLevelStep * (after.level - 1)
        /\ after.ghosts[i].speed > before.ghosts[i].speed
  /\ after.frightenedTimer = 0
  /\ after.freezeTimer = START_DELAY
  /\ after.score = score
  /\ after.lives = lives

\* C21: nextLevel() raises level by exactly 1, replaces the grid by a
\* fresh parse of the blueprint with pelletsLeft its full consumable count,
\* puts the player (pending direction cleared) and every ghost idle at their
\* spawn cells, sets frightenedTimer to 0 and freezeTimer to 1.5 s and gives
\* the ghosts the base speed 4.3 + 0.2 x (level - 1), above that of the level
\* before; score and lives are as nextLevel() found them.  The same holds at
\* the end of the tick that advanced the level, the score being that of
\* before the tick plus the points of the tile eaten.
C21_Step ==
  /\ Started =>
        C21_After(state, nextLevel(World).state, state.score, state.lives)
  /\ Op' = "loop()" /\ Count(calls', "level") = 1 =>
        C21_After(state, state',
                  state.score + PelletScore * Count(calls', "pellet")
                              + PowerScore * Count(calls', "power"),
                  state.lives)
C21_NextLevel == [][C21_Step]_vars
\* the level ended by the pellet, the power-pellet eaten before; the loop
\* pattern is switched back to mute for the freeze window of level 2
C21_Witness ==
  /\ Op = "loop()" /\ Count(calls, "level") = 1 /\ Count(calls, "pellet") = 1
  /\ state.level = 2 /\ state.score = PelletScore + PowerScore
  /\ state.freezeTimer = START_DELAY /\ state.frightenedTimer = 0
  /\ state.ghosts[1].speed = GhostBaseSpeed + GhostLevelStep
  /\ loopMode = "mute" /\ Count(calls, "setLoop") = 1


\* the actors as a spawn leaves them: idle at their spawn cells, nothing
\* queued, release waits staggered by list index, nobody frightened
FreshActors(st) ==
  /\ st.pacman = createPacman(st.pacmanSpawn)
  /\ Len(st.ghosts) = Min(Len(st.ghostSpawns), MAX_GHOSTS)
  /\ \A i \in DOMAIN st.ghosts :
        /\ AtSpawn(st.ghosts[i], st.ghostSpawns[i])
        /\ st.ghosts[i].direction = Null
        /\ ~st.ghosts[i].frightened
        /\ st.ghosts[i].waitTimer
             = BASE_GHOST_RELEASE + (i - 1) * GHOST_RELEASE_STEP
        /\ st.ghosts[i].speed
             = GhostBaseSpeed + GhostLevelStep * (st.level - 1)

\* what a life loss that is not the last makes of `before`
C22_After(before, after) ==
  /\ after.lives = before.lives - 1
  /\ after.grid = before.grid
  /\ after.pelletsLeft = before.pelletsLeft
  /\ after.score = before.score
  /\ after.level = before.level
  /\ after.pacmanSpawn = before.pacmanSpawn
  /\ after.ghostSpawns = before.ghostSpawns
  /\ after.running /\ ~after.gameOver /\ after.paused = before.paused
  /\ FreshActors(after)
  /\ after.frightenedTimer = 0
  /\ after.freezeTimer = START_DELAY

\* C22: a life loss that leaves lives > 0 keeps the grid with its eaten
\* tiles, pelletsLeft, score and level, recreates the player and all ghosts
\* idle at their spawn cells with release waits of 1.25 s + 0.5 s per list
\* index, cancels the frightened mode and sets freezeTimer to 1.5 s.  In a
\* tick this is relative to the game as the collision check found it, plus
\* 200 points per frightened ghost eaten earlier in the same scan.
C22_Step ==
  /\ Started /\ state.running /\ state.lives > 1 =>
        C22_After(state, loseLife(World).state)
  /\ Tick /\ Count(calls', "death") = 1 /\ ~state'.gameOver =>
        \E rnds \in FrameDraws :
           C22_After([BeforeCollisions(rnds) EXCEPT
                         !.score = @ + GhostScore * Count(calls', "ghost"),
                         !.animationFrame = "pending"],
                     state')
C22_LifeLossKeepsLevel == [][C22_Step]_vars
\* the first life lost after the pellet was eaten: the pellet's tile is
\* still empty, the power-pellet still there
C22_Witness ==
  /\ Op = "loop()" /\ Count(calls, "death") = 1
  /\ state.lives = StartLives - 1 /\ state.score = PelletScore
  /\ state.grid[1][2] = "empty" /\ state.grid[1][0] = "power"
  /\ state.pelletsLeft = 1
  /\ state.freezeTimer = START_DELAY
  /\ FreshActors(state)


\* ghost i of st has not moved since it was put on its spawn cell
Unreleased(st, i) == st.ghosts[i].direction = Null
\* ghost i begins its first move since it was put on its spawn cell
Begins(i) ==
  /\ i \in DOMAIN state.ghosts /\ i \in DOMAIN state'.ghosts
  /\ Unreleased(state, i) /\ state'.ghosts[i].moving
\* the release wait ghost i has left after `t` ticks if it was created at the
\* last spawn of the actors
FreshWait(i, t) ==
  Max(0, BASE_GHOST_RELEASE + (i - 1) * GHOST_RELEASE_STEP - MaxDelta * t)

\* the tick count at which the release wait of ghost i, created at the last
\* spawn of the actors, has run out
FreshTicks(i) ==
  (BASE_GHOST_RELEASE + (i - 1) * GHOST_RELEASE_STEP) \div MaxDelta

\* what C23 asks of ghost i in a tick that ends neither a life nor the
\* level, t ghost updates after the spawn of the actors
C23_Ghost(i, t) ==
  LET g == state.ghosts[i]
      h == state'.ghosts[i]
  IN /\ g.waitTimer > 0 /\ ~JustRespawned(h) =>
          /\ h = [g EXCEPT !.waitTimer = Max(0, g.waitTimer - MaxDelta),
                           !.frightened = h.frightened]
          /\ ~h.moving /\ AtSpawn(h, h.spawn)
     /\ t <= FreshTicks(i) =>
          g.waitTimer = FreshWait(i, t) \/ JustRespawned(g)
     /\ t < FreshTicks(i) => Unreleased(state', i) /\ ~h.moving
     /\ t = FreshTicks(i) /\ Candidates(g) # { } /\ ~JustRespawned(h) =>
          Begins(i)
     /\ Begins(i) => t >= FreshTicks(i)

\* C23: a ghost whose release wait is positive at its update has the wait
\* reduced by the tick's delta, not below 0, and neither starts nor advances a
\* move in that tick.  The ghosts created by a spawn of the actors wait
\* 1.25 s + 0.5 s per list index: ghost i stays on its spawn cell for the
\* first 25 + 10 x (i - 1) ticks after the spawn and begins its first move in
\* the next tick, so the ghosts begin moving in list order.  (The ghosts
\* created by a level advance are updated once in the tick that created them,
\* which is the first of these ticks.)
C23_Step ==
  /\ \A i \in 1 .. MAX_GHOSTS : \A j \in 1 .. MAX_GHOSTS :
        i < j => FreshTicks(i) < FreshTicks(j)
  /\ Tick /\ ~TickEnds =>
        \E lead \in 0 .. 1 :
           \A i \in DOMAIN state.ghosts : C23_Ghost(i, ticks + lead)
C23_ReleaseWait == [][C23_Step]_vars
\* the second ghost begins its first move, ten ticks after the first did
C23_Witness ==
  /\ Op = "loop()" /\ ticks = FreshTicks(2) + 1
  /\ state.level = 1 /\ Len(state.ghosts) = 2
  /\ state.ghosts[2].moving
  /\ state.ghosts[2].progress = GhostBaseSpeed * NormalFactor * MaxDelta
  /\ ~Unreleased(state, 1)


\* outcomes of the two random draws of chooseGhostDirection that reach every
\* index of a list of up to four choices
AllDraws == { NoDraw } \cup { [sub |-> TRUE, pick |-> k] : k \in {0, 5, 7, 10, 14, 15} }

\* d is the exact reverse of the direction g moved in last
IsReverse(g, d) == g.direction # Null /\ d = Reverse(g.direction)

\* what C24 asks of the direction chosen for the idle ghost g under draw rnd,
\* and of the ghost update that follows
C24_Choice(g, rnd) ==
  LET d == chooseGhostDirection(state, g, rnd)
      h == ghostStep(state, g, MaxDelta, rnd)
  IN /\ (d = Null) = (Exits(g) = { })
     /\ d # Null => d \in Exits(g) /\ h.moving /\ h.direction = d
     /\ d # Null /\ IsReverse(g, d) => Exits(g) = { d }
     /\ d = Null => h = g

\* C24: the direction chosen for an idle ghost, frightened or not, by the
\* best choice or by the random substitute, is a legal one and is the exact
\* reverse of the ghost's direction only when the reverse is the only legal
\* direction at its cell; a direction is chosen whenever the cell has a
\* walkable neighbour, and only a ghost whose cell has none is left idle by
\* its update.
C24_NoReverseUnlessForced ==
  Started =>
    \A i \in DOMAIN state.ghosts :
       ~state.ghosts[i].moving =>
          \A rnd \in AllDraws : C24_Choice(state.ghosts[i], rnd)
\* the first ghost turns back at the closed end of the corridor while the
\* second, released, stays on its walled-in cell
C24_Witness ==
  /\ Op = "loop()" /\ Len(state.ghosts) = 2
  /\ LET g == state.ghosts[1]
     IN /\ g.moving /\ g.progress = g.speed * NormalFactor * MaxDelta
        /\ g.startRow = 1 /\ g.startCol = 2 /\ g.direction.dx = -1
  /\ state.ghosts[2].waitTimer = 0 /\ ~state.ghosts[2].moving
  /\ Exits(state.ghosts[2]) = { }


\* the player p is under way from the cell of q in direction d, one tick old
Set(p, q, d) ==
  /\ p.moving /\ p.direction = d
  /\ p.startRow = q.row /\ p.startCol = q.col
  /\ << p.targetRow, p.targetCol >> = Ahead(q, d)
  /\ p.progress = PacmanSpeed * NormalFactor * MaxDelta

\* C25: in a tick that finds the player idle, the queued direction is
\* tried first: if its cell is open the player starts towards it and the
\* queue is cleared; if nothing is queued or the cell is blocked, the queue is
\* kept and the player continues in its current direction if that is open
\* (the zero direction of a fresh player is: a move onto its own cell), and
\* stays idle otherwise.  A tick that finds the player moving, a frame without
\* a tick and togglePause() leave the queue alone, so a direction queued
\* during the freeze window is the move started by the first tick after it.
\* A respawn of the player (life lost, level advanced) puts a fresh player
\* with an empty queue in its place.
C25_Step ==
  /\ Tick /\ ~TickEnds =>
       LET pac == state.pacman
           next == state'.pacman
           pend == pac.pendingDirection
           cur == pac.direction
       IN IF pac.moving THEN next.pendingDirection = pend
          ELSE IF pend # Null /\ Open(Ahead(pac, pend))
          THEN Set(next, pac, pend) /\ next.pendingDirection = Null
          ELSE /\ next.pendingDirection = pend
               /\ IF Open(Ahead(pac, cur)) THEN Set(next, pac, cur)
                  ELSE next = pac
  /\ Tick /\ TickEnds /\ ~state'.gameOver =>
       state'.pacman = createPacman(state.pacmanSpawn)
  /\ Started /\ ~Tick /\ Op' \in {"loop()", "togglePause()"} =>
       state'.pacman = state.pacman
  /\ Op' = "setPacmanDirection()" /\ Started =>
       \E d \in AnyDirection :
          state'.pacman \in { state.pacman,
                              [state.pacman EXCEPT !.pendingDirection = d] }
C25_PendingFirst == [][C25_Step]_vars
\* the first tick after the freeze window: the player leaves its spawn cell
\* to the left, as queued while frozen
C25_Witness ==
  /\ Op = "loop()" /\ ticks = 1 /\ state.lives = StartLives /\ state.level = 1
  /\ state.score = 0
  /\ Set(state.pacman, state.pacmanSpawn, [dx |-> -1, dy |-> 0])
  /\ state.pacman.pendingDirection = Null
\* a queued direction that is blocked is kept while the player continues
C25_KeptWhileBlocked ==
  /\ Op = "loop()" /\ state.pacman.moving
  /\ state.pacman.pendingDirection = [dx |-> 0, dy |-> 1]
  /\ state.pacman.direction = [dx |-> 1, dy |-> 0]
  /\ state.pacman.progress = PacmanSpeed * NormalFactor * MaxDelta


\* a failed beginMove returns the actor as it was
C26_BeginMoveFailure ==
  \A a \in Actors : \A d \in AnyDirection :
     LET r == beginMove(state, a, d)
     IN /\ r.ok = Open(Ahead(a, d))
        /\ ~r.ok => r.actor = a

\* the player is idle and presses into a wall: the queued direction is
\* blocked and its current direction leads to no other open cell
PressesIntoWall(pac) ==
  /\ ~pac.moving
  /\ pac.pendingDirection # Null /\ ~Open(Ahead(pac, pac.pendingDirection))
  /\ pac.direction = ZeroDirection \/ ~Open(Ahead(pac, pac.direction))

\* C26: a failed beginMove (target row outside the grid or target tile a
\* wall) returns false and changes no field of the actor, so a player
\* pressing into a wall stays idle on its cell: after the tick it is the
\* player it was, moving flag and progress included.
C26_Step ==
  /\ C26_BeginMoveFailure
  /\ Tick /\ ~TickEnds /\ PressesIntoWall(state.pacman) =>
        state'.pacman = state.pacman
C26_FailedMoveLeavesIdle == [][C26_Step]_vars

\* the part of C26 that holds: a player whose queued and current directions
\* are both blocked stays as it is
C26_BlockedStep ==
  Tick /\ ~TickEnds /\ PressesIntoWall(state.pacman)
       /\ state.pacman.direction # ZeroDirection =>
     state'.pacman = state.pacman
C26_BlockedBothWays == [][C26_BlockedStep]_vars
C26_BlockedReached ==
  /\ Op = "loop()" /\ ticks > 0 /\ PressesIntoWall(state.pacman)
  /\ state.pacman.direction # ZeroDirection


\* the positions of call x in the call list c
At(c, x) == { i \in DOMAIN c : c[i] = x }
\* the calls made by the simulation update
UpdateEvents == {"pellet", "power", "ghost", "death", "level", "gameOver"}

\* C27: in every frame the simulation update is complete before the
\* render, and every audio-mode resync of the frame comes after the render:
\* none happens during the update or before the render.
C27_Step ==
  FrameOf(state) =>
    /\ Cardinality(At(calls', "drawGame")) = 1
    /\ \A d \in At(calls', "drawGame") :
          /\ \A i \in DOMAIN calls' : calls'[i] \in UpdateEvents => i < d
          /\ \A s \in At(calls', "syncAudioLoop") : d < s
C27_ResyncAfterRender == [][C27_Step]_vars

\* the part of C27 that holds: one render per frame, after every call of the
\* update, and one audio-mode resync after the render
C27_FinalStep ==
  FrameOf(state) =>
    /\ Cardinality(At(calls', "drawGame")) = 1
    /\ \A d \in At(calls', "drawGame") :
          /\ \A i \in DOMAIN calls' : calls'[i] \in UpdateEvents => i < d
          /\ Cardinality({ s \in At(calls', "syncAudioLoop") : d < s }) = 1
C27_FinalResyncAfterRender == [][C27_FinalStep]_vars
\* a frame whose update resynchronised the audio mode before the render
C27_EarlyResync ==
  /\ Op = "loop()" /\ Count(calls, "power") = 1
  /\ \E s \in At(calls, "syncAudioLoop") : \E d \in At(calls, "drawGame") : s < d


\* C28: at most one frame callback is pending at any time: one exactly
\* while the game is running (paused and frozen included), and it is the one
\* whose id state.animationFrame holds; none before the first start() and
\* none after game over.  start() leaves exactly one pending whatever the
\* state it is called in, and a frame leaves one exactly if the game is still
\* running at its end.
C28_Step ==
  /\ pendingFrames' \in {0, 1}
  /\ (pendingFrames' = 1) = state'.running
  /\ (pendingFrames' = 1) = (state'.animationFrame = "pending")
  /\ state'.gameOver => pendingFrames' = 0
  /\ Op' = "start()" => pendingFrames' = 1
  /\ Op' = "loop()" => pendingFrames = 1
  /\ Op' \in {"togglePause()", "setPacmanDirection()"} =>
        pendingFrames' = pendingFrames
C28_OnePendingFrame == [][C28_Step]_vars
\* start() called on a game in play (the loop pattern had to be muted for the
\* new freeze window): one callback pending, not two
C28_Witness ==
  /\ Op = "start()" /\ loopMode = "mute" /\ Count(calls, "setLoop") = 1
  /\ state.running /\ state.animationFrame = "pending"
  /\ pendingFrames = 1


\* gaps between frame timestamps a frame is tried with: none, half the cap,
\* the cap, just above it, one second, LongGap
TriedGaps == {0, 1, MaxDelta, MaxDelta + 1, 40, LongGap}

\* the most progress an actor can have after a tick
MostProgress(a) ==
  (IF a.moving THEN a.progress ELSE 0) + a.speed * NormalFactor * MaxDelta

\* `after` is within one capped delta of `before`; respawned tells that the
\* frame respawned the actors, which ends the frightened mode and sets the
\* release waits anew
C29_Within(before, after, respawned) ==
  /\ after.freezeTimer >= before.freezeTimer - MaxDelta
  /\ respawned \/ after.frightenedTimer >= before.frightenedTimer - MaxDelta
  /\ after.pacman.progress <= MostProgress(before.pacman)
  /\ Len(after.ghosts) = Len(before.ghosts)
  /\ \A i \in DOMAIN after.ghosts :
        /\ after.ghosts[i].progress <= MostProgress(before.ghosts[i])
        /\ \/ respawned
           \/ after.ghosts[i].waitTimer >= before.ghosts[i].waitTimer - MaxDelta

\* C29: whatever the gap between the frame timestamps, a frame applies at
\* most 0.05 s of simulated time: a gap above 0.05 s has the effect of one of
\* exactly 0.05 s, a frame lowers freezeTimer (and every other timer) by at
\* most 0.05 s, so that the freeze window of 1.5 s takes at least 30 unpaused
\* frames, and no actor gains more than speed x 0.05 progress in a tick.
C29_DeltaClamped ==
  /\ START_DELAY >= 30 * MaxDelta
  /\ Started /\ pendingFrames > 0 =>
       \A gap \in TriedGaps : \A rnds \in FrameDraws :
          LET after == loop(Fired(World), gap, rnds)
          IN /\ C29_Within(state, after.state,
                            InList(after.calls, "death")
                              \/ InList(after.calls, "level"))
             /\ gap >= MaxDelta => after = loop(Fired(World), MaxDelta, rnds)
\* a frame LongGap after the one before finds the player and a ghost under
\* way and moves each by its speed x 0.05
C29_Witness ==
  /\ Started /\ pendingFrames > 0 /\ Ticking(state)
  /\ state.pacman.moving /\ state.pacman.progress > 0
  /\ state.ghosts[1].moving /\ state.ghosts[1].progress > 0
  /\ \A rnds \in FrameDraws :
        LET after == loop(Fired(World), LongGap, rnds).state
        IN /\ after.pacman.moving /\ after.ghosts[1].moving
           /\ after.pacman.progress
                = state.pacman.progress + PacmanSpeed * NormalFactor * MaxDelta
           /\ after.ghosts[1].progress
                = state.ghosts[1].progress
                    + state.ghosts[1].speed * NormalFactor * MaxDelta


\* the cells of blueprint bp, as << row, col >> counted from 0
CellsOf(bp) ==
  UNION { { << r - 1, c - 1 >> : c \in 1 .. Len(bp[r]) } : r \in 1 .. Len(bp) }
CharAt(bp, rc) == bp[rc[1] + 1][rc[2] + 1]
\* rc comes before sd in the scan: rows top to bottom, a row left to right
ScanBefore(rc, sd) == rc[1] < sd[1] \/ (rc[1] = sd[1] /\ rc[2] < sd[2])
Cell(spawn) == << spawn.row, spawn.col >>

\* what C30 asks of the parse p of blueprint bp
C30_Parse(bp, p) ==
  /\ DOMAIN p.grid = 0 .. Len(bp) - 1
  /\ \A r \in DOMAIN p.grid : DOMAIN p.grid[r] = 0 .. Len(bp[r + 1]) - 1
  /\ \A rc \in CellsOf(bp) :
        LET char == CharAt(bp, rc)
            tile == p.grid[rc[1]][rc[2]]
        IN /\ char = "#" => tile = "wall"
           /\ char = "." => tile = "pellet"
           /\ char = "o" => tile = "power"
           /\ char \in {"-", " ", "P", "G"} => tile = "empty"
           /\ char \notin {"#", ".", "o", "-", " ", "P", "G"} => tile = "pellet"
  /\ p.pelletCount
       = Cardinality({ rc \in CellsOf(bp) :
                         p.grid[rc[1]][rc[2]] \in {"pellet", "power"} })
  /\ { Cell(p.ghostSpawns[i]) : i \in DOMAIN p.ghostSpawns }
       = { rc \in CellsOf(bp) : CharAt(bp, rc) = "G" }
  /\ \A i \in DOMAIN p.ghostSpawns : \A j \in DOMAIN p.ghostSpawns :
        i < j => ScanBefore(Cell(p.ghostSpawns[i]), Cell(p.ghostSpawns[j]))
  /\ LET ps == { rc \in CellsOf(bp) : CharAt(bp, rc) = "P" }
     IN IF ps = { } THEN p.pacmanSpawn = [row |-> 17, col |-> 9]
        ELSE Cell(p.pacmanSpawn) \in ps

\* C30: for every character grid the parser returns a tile grid of the
\* same dimensions, row by row, in which '#' is wall, '.' pellet, 'o'
\* power-pellet, '-', space, 'P' and 'G' empty and any other character a
\* pellet; the consumable count is the number of pellet and power-pellet
\* tiles of that grid, the ghost spawns are the 'G' cells in scan order, and
\* the player spawn is a 'P' cell, or row 17, column 9 when there is none;
\* resetLevelGrid() stores exactly this parse in the game state.
C30_ParserTotal ==
  /\ C30_Parse(LEVEL_BLUEPRINT, parseBlueprint(LEVEL_BLUEPRINT))
  /\ Op = "resetLevelGrid()" =>
        LET p == parseBlueprint(LEVEL_BLUEPRINT)
        IN /\ state.grid = p.grid
           /\ state.pelletsLeft = p.pelletCount
           /\ state.ghostSpawns = p.ghostSpawns
           /\ state.pacmanSpawn = p.pacmanSpawn
\* a blueprint of two rows of unequal length with two ghost cells, an unknown
\* character and no player cell
C30_Witness ==
  /\ Op = "resetLevelGrid()"
  /\ LEVEL_BLUEPRINT = << << "G", "x" >>, << "G" >> >>
  /\ state.grid[0][1] = "pellet" /\ state.pelletsLeft = 1
  /\ state.ghostSpawns = << [row |-> 0, col |-> 0], [row |-> 1, col |-> 0] >>
  /\ state.pacmanSpawn = [row |-> 17, col |-> 9]


\* the positions of the syncAudioLoop calls among the calls c of an operation
Syncs(c) == { k \in DOMAIN c : c[k] = "syncAudioLoop" }

\* the mode Game State gives at the syncAudioLoop call at position k: the
\* call is made by triggerPowerPellet, by nextLevel, loseLife or gameOver, at
\* the end of the operation, or else by updateFrightened as the timer runs out
ModeAt(c, k, final) ==
  CASE c[k - 1] = "power" -> "frightened"
    [] c[k - 1] \in { "level", "death", "gameOver" } -> "mute"
    [] c[k - 1] \in { "drawGame", "requestAnimationFrame", "togglePause()" } -> final
    [] OTHER -> "chase"

\* the mode the sound board is in when the call at position k is made
ModeBefore(c, k, first, final) ==
  LET earlier == { j \in Syncs(c) : j < k }
  IN IF earlier = { } THEN first
     ELSE ModeAt(c, CHOOSE j \in earlier : \A i \in earlier : i <= j, final)

C31_Step ==
  LET c == calls'
      final == LoopModeOf(state')
  IN /\ Op' \in { "start()", "togglePause()", "loop()" } => loopMode' = final
     /\ \A k \in Syncs(c) :
           (k < Len(c) /\ c[k + 1] = "setLoop")
             <=> ModeAt(c, k, final) # ModeBefore(c, k, loopMode, final)
     /\ \A k \in DOMAIN c :
           c[k] = "setLoop" => k > 1 /\ c[k - 1] = "syncAudioLoop"
     /\ loopTimers' = IF loopMode' = "mute" THEN 0 ELSE 1
     /\ loopHandle' = "null" <=> loopTimers' = 0

\* C31: after start(), after togglePause() and at the end of every frame the
\* mode of the audio loop is the one Game State gives (mute when not running,
\* game over, paused or frozen, else frightened while frightenedTimer > 0,
\* else chase); the pattern is stopped and restarted exactly by the
\* syncAudioLoop calls at which that mode changes, and at most one loop timer
\* runs: none when muted, one otherwise.
C31_LoopModeFollowsState == [][C31_Step]_vars

\* a frame on which the loop changed from chase to frightened
C31_Witness ==
  /\ Op = "loop()" /\ loopMode = "frightened" /\ loopTimers = 1
  /\ Count(calls, "setLoop") = 1 /\ InList(calls, "power")


\* the sound board in its three conditions: silent, or playing a pattern
Boards ==
  { [mode |-> "mute", handle |-> "null", timers |-> 0],
    [mode |-> "chase", handle |-> "interval", timers |-> 1],
    [mode |-> "frightened", handle |-> "interval", timers |-> 1] }

\* the world w with another sound board b in place, and nothing drawn or played
WithBoard(w, b) ==
  [w EXCEPT !.loopMode = b.mode, !.loopHandle = b.handle,
            !.loopTimers = b.timers, !.calls = << >>]

\* what the simulation keeps of a world
GameState(w) == << w.state, w.pendingFrames >>

\* the draws a frame may be given in the current state
DrawsNow ==
  { rnds \in [1 .. Len(state.ghosts) -> RandomDraws] :
       \A i \in 1 .. Len(state.ghosts) :
          MayDraw(state.ghosts[i]) \/ rnds[i] = NoDraw }

\* C32: rendering and audio only read Game State: whatever the sound board
\* holds and whatever has been drawn or played, each operation (start,
\* togglePause, setPacmanDirection, a frame with any delta and any draws)
\* leaves the same Game State, so the run of Game States is the same with the
\* real board, the silent board, and without drawing.
C32_BoardNeverRead ==
  \A b \in Boards :
     /\ GameState(start(WithBoard(Called("start()"), b)))
          = GameState(start(Called("start()")))
     /\ GameState(togglePause(WithBoard(Called("togglePause()"), b)))
          = GameState(togglePause(Called("togglePause()")))
     /\ \A i \in 1 .. Len(directions) :
           GameState(setPacmanDirection(WithBoard(Called("setPacmanDirection()"), b),
                                        directions[i]))
             = GameState(setPacmanDirection(Called("setPacmanDirection()"),
                                            directions[i]))
     /\ pendingFrames > 0 =>
          \A gap \in Gaps : \A rnds \in DrawsNow :
             GameState(loop(WithBoard(Fired(Called("loop()")), b), gap, rnds))
               = GameState(loop(Fired(Called("loop()")), gap, rnds))

\* a frame that ate a power-pellet, changed the loop and drew
C32_Witness ==
  /\ Op = "loop()" /\ InList(calls, "power") /\ InList(calls, "setLoop")
  /\ InList(calls, "drawGame") /\ loopMode = "frightened"
  /\ state.frightenedTimer = FrightenedTime - MaxDelta


\* C33: at every state after start(), pelletsLeft is the number of pellet and
\* power-pellet tiles in the grid, and it is at least 1: the tick that eats
\* the last one refills the grid before the frame ends.
C33_PelletsLeftCountsGrid ==
  Started =>
    /\ state.pelletsLeft = Consumables(state.grid)
    /\ state.pelletsLeft >= 1

\* the frame that ate the last consumable: the level went up and the grid is
\* full again
C33_Witness ==
  /\ Op = "loop()" /\ InList(calls, "level") /\ state.level = 2 /\ state.running
  /\ state.pelletsLeft = Consumables(parseBlueprint(LEVEL_BLUEPRINT).grid)
  /\ state.pelletsLeft = 2


FrightenedBefore(i) == i \in DOMAIN state.ghosts /\ state.ghosts[i].frightened

C34_Step ==
  \A i \in DOMAIN state'.ghosts :
     LET g == state'.ghosts[i]
     IN /\ g.frightened => state'.frightenedTimer > 0
        \* only a power-pellet frightens a ghost
        /\ g.frightened /\ ~FrightenedBefore(i) => InList(calls', "power")
        \* a life loss, a level advance and a restart leave none frightened
        /\ InList(calls', "death") \/ InList(calls', "level") \/ Op' = "start()"
             => ~g.frightened
        \* the timer running out leaves none frightened
        /\ state.frightenedTimer > 0 /\ state'.frightenedTimer = 0 => ~g.frightened

C35_Step ==
  state.pelletsLeft = 1 /\ InList(calls', "power") =>
    /\ InList(calls', "level") /\ state'.level = state.level + 1
    /\ state'.frightenedTimer = 0
    /\ \A i \in DOMAIN state'.ghosts :
          /\ ~state'.ghosts[i].frightened
          /\ AtSpawn(state'.ghosts[i], state'.ghostSpawns[i])
    /\ AtSpawn(state'.pacman, state'.pacmanSpawn)
    /\ state'.freezeTimer = START_DELAY
    /\ state'.score = state.score + PowerScore
    /\ loopMode' = "mute"

\* C35: when the power-pellet consumed is the last consumable of the level,
\* the level advance of the same tick cancels the frightened mode it set off:
\* at the end of the tick frightenedTimer = 0, no ghost is frightened, every
\* actor is at its spawn cell and freezeTimer = 1.5 s, and the score keeps
\* the +50.
C35_LastPowerPelletAdvances == [][C35_Step]_vars

\* the frame that ate the power-pellet as the last consumable
C35_Witness ==
  /\ Op = "loop()" /\ InList(calls, "power") /\ InList(calls, "level")
  /\ state.level = 2 /\ state.frightenedTimer = 0
  /\ state.freezeTimer = START_DELAY /\ state.score >= PowerScore + PelletScore


\* the move of actor a is still under way in b (further on if the frame ran
\* the simulation), or b has settled on its target
MoveHeld(a, b, ran) ==
  \/ /\ b.moving
     /\ IF ran THEN b.progress > a.progress ELSE b.progress = a.progress
     /\ b.startRow = a.startRow /\ b.startCol = a.startCol
     /\ b.targetRow = a.targetRow /\ b.targetCol = a.targetCol
     /\ b.direction = a.direction
     /\ b.row = a.row /\ b.col = a.col
  \/ /\ ran /\ ~b.moving /\ b.row = a.targetRow /\ b.col = a.targetCol
     /\ b.direction = a.direction

Respawns == InList(calls', "death") \/ InList(calls', "level")

C37_Step ==
  /\ Op' = "setPacmanDirection()" /\ Started =>
        \* the key press touches the queued direction only, and the new
        \* direction takes the place of the queued one
        \/ state' = state
        \/ /\ isRunning(state)
           /\ \E i \in 1 .. Len(directions) :
                 state' = [state EXCEPT !.pacman.pendingDirection = directions[i]]
  /\ Op' = "togglePause()" /\ Started =>
        state'.pacman = state.pacman /\ state'.ghosts = state.ghosts
  /\ Op' = "loop()" /\ Started /\ ~Respawns =>
        /\ state.pacman.moving =>
              /\ MoveHeld(state.pacman, state'.pacman, Ticking(state))
              /\ state'.pacman.pendingDirection = state.pacman.pendingDirection
        /\ \A i \in DOMAIN state.ghosts :
              state.ghosts[i].moving =>
                 \/ MoveHeld(state.ghosts[i], state'.ghosts[i], Ticking(state))
                 \/ InList(calls', "ghost") /\ JustRespawned(state'.ghosts[i])

\* C37: input never interrupts or redirects a move under way: while an actor
\* is moving, setPacmanDirection changes the player's queued direction only
\* (the new one replacing the queued one), and from frame to frame the move
\* keeps its start cell, target cell and direction until the actor settles
\* on the target, unless the actors are respawned by a life loss, a level
\* advance or a restart or the ghost is eaten.
C37_MoveNotInterrupted == [][C37_Step]_vars

\* a key press while the player is under way that replaces a queued direction
\* by another one, both different from the direction of the move
C37_Witness ==
  /\ Started /\ Op = "setPacmanDirection()" /\ state.pacman.moving
  /\ state.pacman.progress > 0
  /\ state.pacman.pendingDirection = directions[3]
  /\ state.pacman.direction = directions[1]
  /\ state.pacman.targetCol # state.pacman.col


\* how far the ghost is to the right of the player, in 1/8000 tile
AheadBy(st, i) ==
  getActorPosition(st.ghosts[i]).x - getActorPosition(st.pacman).x

\* the collision check of the frame fired
Caught == InList(calls', "death") \/ InList(calls', "ghost")

C38_Step ==
  Op' = "loop()" /\ Started /\ ~Caught /\ ~InList(calls', "level") =>
    \A i \in DOMAIN state.ghosts :
       \* ghost speed below 8.5 tiles/s
       state.ghosts[i].speed < 85 =>
          /\ AheadBy(state, i) > 0 => AheadBy(state', i) > 0
          /\ AheadBy(state, i) < 0 => AheadBy(state', i) < 0

\* C38: while the ghosts are slower than 8.5 tiles/s (levels 1 to 21), the
\* player and a ghost in one corridor never pass through each other or swap
\* cells undetected, whatever the frame deltas: the order of the two along
\* the corridor changes only on a frame whose collision check fires a
\* capture or a ghost-eaten event.
C38_NoPassingUndetected == [][C38_Step]_vars

\* on the highest level: the player moving right and the ghost moving left,
\* less than one tick's closing distance outside each other's reach
C38_Witness ==
  /\ Started /\ state.level = MaxDuelLevel /\ Ticking(state)
  /\ \E i \in DOMAIN state.ghosts :
        /\ state.pacman.moving /\ state.pacman.direction.dx = 1
        /\ state.ghosts[i].moving /\ state.ghosts[i].direction.dx = -1
        /\ state.ghosts[i].speed = GhostBaseSpeed + (MaxDuelLevel - 1) * GhostLevelStep
        /\ AheadBy(state, i) >= PacRadius
        /\ AheadBy(state, i) < PacRadius + 3000

\* the same with a frightened ghost
C38_FrightenedHeadOn ==
  /\ Started /\ Ticking(state)
  /\ \E i \in DOMAIN state.ghosts :
        /\ state.pacman.moving /\ state.pacman.direction.dx = 1
        /\ state.ghosts[i].moving /\ state.ghosts[i].direction.dx = -1
        /\ state.ghosts[i].frightened
        /\ AheadBy(state, i) >= PacRadius
        /\ AheadBy(state, i) < PacRadius + 3000

\* the cell lies inside the grid and holds no wall
OpenCell(st, row, col) ==
  /\ row \in DOMAIN st.grid
  /\ col \in DOMAIN st.grid[row]
  /\ st.grid[row][col] # "wall"

\* the settled cell and the target cell of the actor are open cells
OnOpenCells(st, actor) ==
  /\ OpenCell(st, actor.row, actor.col)
  /\ OpenCell(st, actor.targetRow, actor.targetCol)

\* C36: on the shipped level the settled cell and the target cell of the
\* player and of every ghost are always inside the grid and never a wall
\* tile, also right after a spawn, the respawn of an eaten ghost, a life loss
\* and a level advance.
C36_ActorsOnOpenCells ==
  (LEVEL_BLUEPRINT = Shipped /\ Started) =>
     /\ OnOpenCells(state, state.pacman)
     /\ \A i \in DOMAIN state.ghosts : OnOpenCells(state, state.ghosts[i])

\* right after a life loss on the second level, with a ghost under way and a
\* ghost eaten before
C36_Witness ==
  /\ LEVEL_BLUEPRINT = Shipped /\ Started
  /\ state.level = 2 /\ state.lives < StartLives
  /\ InList(calls, "death")
  /\ state.score > 0

\* right after the respawn of an eaten ghost
C36_GhostRespawned ==
  /\ LEVEL_BLUEPRINT = Shipped /\ Started
  /\ InList(calls, "ghost")
  /\ \E i \in DOMAIN state.ghosts :
        /\ state.ghosts[i].waitTimer = RespawnWait
        /\ state.ghosts[i].row = state.ghosts[i].startRow
        /\ state.ghosts[i].col = state.ghosts[i].startCol

\* the shipped level as parsed
ShippedLevel == parseBlueprint(Shipped)

\* the cells one legal move away from the cells of `from`
Moves(st, from) ==
  { [row |-> m.actor.targetRow, col |-> m.actor.targetCol] :
      m \in { m2 \in { beginMove(st, createPacman(cell), directions[i]) :
                          cell \in from, i \in 1 .. Len(directions) } : m2.ok } }

\* the cells a player reaches from `frontier` by legal moves
RECURSIVE ReachFrom(_, _, _)
ReachFrom(st, seen, frontier) ==
  IF frontier = { } THEN seen
  ELSE LET next == Moves(st, frontier) \ seen
       IN ReachFrom(st, seen \cup next, next)

\* the pellet and power-pellet tiles of the grid
ConsumableCells(st) ==
  { cell \in { [row |-> r, col |-> c] :
                  r \in DOMAIN st.grid, c \in DOMAIN st.grid[0] } :
      /\ cell.col \in DOMAIN st.grid[cell.row]
      /\ st.grid[cell.row][cell.col] \in { "pellet", "power" } }

\* no consumable of the shipped level is walled off from the player spawn,
\* and every ghost spawn has a walkable neighbour
C39_NothingWalledOff ==
  LET st == [grid |-> ShippedLevel.grid]
      spawn == ShippedLevel.pacmanSpawn
  IN /\ ConsumableCells(st) \subseteq ReachFrom(st, { spawn }, { spawn })
     /\ Cardinality(ConsumableCells(st)) = ShippedLevel.pelletCount
     /\ \A i \in DOMAIN ShippedLevel.ghostSpawns :
           countWalkableNeighbors(st, ShippedLevel.ghostSpawns[i].row,
                                  ShippedLevel.ghostSpawns[i].col) >= 1

\* a frame that runs the simulation leaves a ghost that stood released on
\* its cell in a move, unless the frame sent it back to its spawn to wait
C39_Step ==
  (LEVEL_BLUEPRINT = Shipped /\ Started /\ Ticking(state) /\ Op' = "loop()") =>
     \A i \in DOMAIN state.ghosts :
        (state.ghosts[i].waitTimer = 0 /\ ~state.ghosts[i].moving) =>
           \/ state'.ghosts[i].moving
           \/ state'.ghosts[i].waitTimer > 0

\* C39: in the shipped level every pellet and power-pellet tile is reachable
\* from the player spawn by legal moves and every ghost spawn has a walkable
\* neighbour; every ghost begins a move in the first tick after its
\* release-wait has run out.  (That the level can be cleared from the state
\* after start() is shown by the witness, which lies behind a level advance.)
C39_ShippedLevelPlayable == []C39_NothingWalledOff /\ [][C39_Step]_vars

\* on the second level, reached by consuming every pellet of the first: a
\* ghost in the first tick of its move away from its spawn cell
C39_Witness ==
  /\ LEVEL_BLUEPRINT = Shipped /\ Started
  /\ state.level = 2 /\ Op = "loop()"
  /\ \E i \in DOMAIN state.ghosts :
        /\ state.ghosts[i].moving /\ state.ghosts[i].waitTimer = 0
        /\ state.ghosts[i].startRow = state.ghosts[i].spawn.row
        /\ state.ghosts[i].startCol = state.ghosts[i].spawn.col
        /\ state.ghosts[i].direction = Null \/ state.ghosts[i].progress > 0

\* the frame that consumed the last pellet of the first level
C39_LevelCleared ==
  /\ LEVEL_BLUEPRINT = Shipped /\ Started
  /\ state.level = 2 /\ Op = "loop()" /\ InList(calls, "level")
  /\ state.pelletsLeft = ShippedLevel.pelletCount

====
